---- MODULE Spec2Model ----
(***************************************************************************)
(* Air-pollution analysis pipeline (services/analysis_service.py, app.py). *)
(*                                                                         *)
(* Python floats are modelled as exact rationals [n |-> _, d |-> _] in     *)
(* lowest terms (d > 0), so every equality below is an equality of real    *)
(* numbers.  IEEE rounding is modelled where int() cuts a float, with the *)
(* binary64 arithmetic below.                                              *)
(* Timestamps are integers; Date(t) is the calendar day of timestamp t.    *)
(***************************************************************************)
EXTENDS Integers, Sequences, FiniteSets, TLC

VARIABLES
    pc,               \* position of the request: "fetch", "analyzed", "classified", "aqi", "aqi_done"
    sentinel_data,    \* NO2 sample collection handed to analyze_pollution_levels
    modis_data,       \* PM2.5 sample collection handed to analyze_pollution_levels
    pollution_levels, \* list of daily records: result of analyze, input of predict_risk_zones
    analyze_exc,      \* exception raised by analyze_pollution_levels ("none" if it returned)
    risk_zones,       \* list returned by predict_risk_zones
    classify_exc,     \* exception raised by predict_risk_zones ("none" if it returned)
    pm25_in,          \* pair of PM2.5 concentrations handed to calculate_pm25_aqi
    pm25_out,         \* the pair of values calculate_pm25_aqi returned for pm25_in
    AI_MODELS_AVAILABLE, \* the import of transformers / sentence_transformers / torch succeeded
    PROPHET_AVAILABLE,   \* the import of prophet succeeded
    weather_seed,     \* state of the random module when fetch_weather_data is called
    current_month,    \* datetime.now().month
    weather_data,     \* weather frame handed to correlate_weather_with_pollution
    weather_correlations, \* what correlate_weather_with_pollution returned
    forecast_days,    \* horizon handed to generate_forecasts
    forecasts,        \* list returned by generate_forecasts
    call_args,        \* arguments of a function of the services called on its own
    call_result       \* what that call returned or raised

\* the process and its surroundings: optional libraries, random module, clock
environment == <<AI_MODELS_AVAILABLE, PROPHET_AVAILABLE, weather_seed, current_month>>

\* arguments and results of the correlator and the forecaster called on their own
correlator_vars == <<weather_data, weather_correlations>>

forecaster_vars == <<forecast_days, forecasts>>

direct_call == <<call_args, call_result>>

vars == <<pc, sentinel_data, modis_data, pollution_levels, analyze_exc,
          risk_zones, classify_exc, pm25_in, pm25_out,
          environment, correlator_vars, forecaster_vars, direct_call>>

(***************************************************************************)
(* Bounds of the model.                                                    *)
(***************************************************************************)
MaxSamples == 2      \* samples per source collection in the join specification
MaxDay == 1          \* calendar days 0..MaxDay in the join specification
MaxSeriesDays == 12  \* longest one-sample-per-day series
MaxRecords == 4      \* longest list handed directly to predict_risk_zones
GridSpan == 3        \* hundredths of ug/m3 explored on each side of an AQI breakpoint
CoarsePoints == 7    \* number of coarse PM2.5 grid points, 50 ug/m3 apart

(***************************************************************************)
(* Exact rational arithmetic standing for Python float arithmetic.         *)
(***************************************************************************)
Abs(x) == IF x < 0 THEN -x ELSE x

\* Euclid's algorithm
Euclid[a \in Nat, b \in Nat] == IF b = 0 THEN a ELSE Euclid[b, a % b]

GCD(a, b) == Euclid[a, b]

LCM(a, b) == (a \div GCD(a, b)) * b

\* A float is kept as the exact fraction n / d in lowest terms, d > 0.  The
\* operations are functions, so that their arguments are values when the
\* operation starts, as the operands of a Python expression are.
Fractions == [n : Int, d : Nat]

Reduced[n \in Int, d \in Nat] ==
    LET g == GCD(Abs(n), d) IN [n |-> n \div g, d |-> d \div g]

Rat(n, d) == Reduced[n, d]

Int2Rat(i) == [n |-> i, d |-> 1]

Sum2[a \in Fractions, b \in Fractions] ==
    LET l == LCM(a.d, b.d) IN Rat(a.n * (l \div a.d) + b.n * (l \div b.d), l)

RatAdd(a, b) == Sum2[a, b]

RatNeg(a) == [n |-> -a.n, d |-> a.d]

RatSub(a, b) == RatAdd(a, RatNeg(b))

Product2[a \in Fractions, b \in Fractions] ==
    LET g1 == GCD(Abs(a.n), b.d)
        g2 == GCD(Abs(b.n), a.d)
    IN  Rat((a.n \div g1) * (b.n \div g2), (a.d \div g2) * (b.d \div g1))

RatMul(a, b) == Product2[a, b]

Quotient2[a \in Fractions, b \in Fractions] ==
    IF b.n > 0 THEN RatMul(a, [n |-> b.d, d |-> b.n])
    ELSE RatMul(a, [n |-> -b.d, d |-> -b.n])

RatDiv(a, b) == Quotient2[a, b]

\* a <= b, comparing integer parts first so that no product leaves 32 bits
LessOrEqual[a \in Fractions, b \in Fractions] ==
    LET fa == a.n \div a.d
        fb == b.n \div b.d
    IN  \/ fa < fb
        \/ /\ fa = fb
           /\ (a.n - fa * a.d) * b.d <= (b.n - fb * b.d) * a.d

RatLe(a, b) == LessOrEqual[a, b]

RatLt(a, b) == ~RatLe(b, a)

RatMax(a, b) == IF RatLe(a, b) THEN b ELSE a

\* the sum of s[lo..hi], by halves
RECURSIVE RatSumRange(_, _, _)
RatSumRange(s, lo, hi) ==
    IF lo > hi THEN Int2Rat(0)
    ELSE IF lo = hi THEN s[lo]
    ELSE RatAdd(RatSumRange(s, lo, (lo + hi) \div 2),
                RatSumRange(s, ((lo + hi) \div 2) + 1, hi))

RatSum(s) ==
    CHOOSE r \in {RatSumRange(v, 1, Len(v)) : v \in {w \in {s} : w = w}} : TRUE

\* arithmetic mean of a non-empty sequence of rationals (pandas .mean())
RatMean(s) == RatDiv(RatSum(s), Int2Rat(Len(s)))

\* the largest of s[lo..hi], by halves
RECURSIVE RatMaxRange(_, _, _)
RatMaxRange(s, lo, hi) ==
    IF lo = hi THEN s[lo]
    ELSE RatMax(RatMaxRange(s, lo, (lo + hi) \div 2),
                RatMaxRange(s, ((lo + hi) \div 2) + 1, hi))

RatMaxOf(s) ==
    CHOOSE r \in {RatMaxRange(v, 1, Len(v)) : v \in {w \in {s} : w = w}} : TRUE

(***************************************************************************)
(* IEEE 754 binary64 arithmetic, for the places where the rounding of a    *)
(* float decides the integer that int() cuts it to.  A natural number of   *)
(* any size is the sequence of its digits in base Limb, lowest first and   *)
(* without leading zeros; a float is sign * m * 2^e with m of exactly 53    *)
(* bits (or 0).  Subnormal numbers, infinities and nan do not occur in the *)
(* ranges used.                                                            *)
(***************************************************************************)
LimbBits == 14

Limb == 2 ^ LimbBits

MantissaBits == 53

\* The operations are functions, so that their arguments are values when the
\* operation starts.
Digits == Seq(Int)

Floats == [s : {-1, 1}, m : Seq(Nat), e : Int]

\* without the zero digits at the high end
BigStrip[x \in Digits] ==
    LET used == {i \in 1..Len(x) : x[i] # 0}
    IN  IF used = {} THEN <<>>
        ELSE SubSeq(x, 1, CHOOSE i \in used : \A j \in used : j <= i)

\* the digits of a sequence of integers (each of magnitude below 2^30) that
\* stand at the places of digits, for a non-negative total
BigCarry[raw \in Digits] ==
    LET n == Len(raw) + 2
        at(i) == IF i <= Len(raw) THEN raw[i] ELSE 0
        c[i \in 0..n] == IF i = 0 THEN 0 ELSE (at(i) + c[i - 1]) \div Limb
    IN  BigStrip[[i \in 1..n |-> (at(i) + c[i - 1]) % Limb]]

BigDigit(x, i) == IF 1 <= i /\ i <= Len(x) THEN x[i] ELSE 0

BigFromInt[i \in Nat] ==
    BigCarry[<<i % Limb, (i \div Limb) % Limb, i \div (Limb * Limb)>>]

\* the integer of a number below 2^31
BigToInt[x \in Digits] ==
    BigDigit(x, 1) + Limb * BigDigit(x, 2) + Limb * Limb * BigDigit(x, 3)

BigAdd[x \in Digits, y \in Digits] ==
    BigCarry[[i \in 1..(IF Len(x) > Len(y) THEN Len(x) ELSE Len(y)) |->
                BigDigit(x, i) + BigDigit(y, i)]]

\* x - y for x >= y
BigSub[x \in Digits, y \in Digits] ==
    BigCarry[[i \in 1..Len(x) |-> BigDigit(x, i) - BigDigit(y, i)]]

\* x * k for 0 <= k < Limb
BigMulSmall[x \in Digits, k \in Nat] == BigCarry[[i \in 1..Len(x) |-> x[i] * k]]

\* x * y for x and y of at most 4 digits
BigMul[x \in Digits, y \in Digits] ==
    IF x = <<>> \/ y = <<>> THEN <<>>
    ELSE BigCarry[[k \in 1..(Len(x) + Len(y) - 1) |->
            LET term(i) == IF 1 <= k + 1 - i /\ k + 1 - i <= Len(y)
                           THEN x[i] * y[k + 1 - i] ELSE 0
            IN  term(1) + (IF Len(x) >= 2 THEN term(2) ELSE 0)
                        + (IF Len(x) >= 3 THEN term(3) ELSE 0)
                        + (IF Len(x) >= 4 THEN term(4) ELSE 0)]]

\* -1, 0 or 1 as x is below, equal to or above y
BigCmp[x \in Digits, y \in Digits] ==
    IF Len(x) # Len(y) THEN (IF Len(x) < Len(y) THEN -1 ELSE 1)
    ELSE LET differ == {i \in 1..Len(x) : x[i] # y[i]}
         IN  IF differ = {} THEN 0
             ELSE LET top == CHOOSE i \in differ : \A j \in differ : j <= i
                  IN  IF x[top] < y[top] THEN -1 ELSE 1

\* x * 2^k
BigShl[x \in Digits, k \in Nat] ==
    IF x = <<>> THEN <<>>
    ELSE BigMulSmall[[i \in 1..(k \div LimbBits) |-> 0] \o x, 2 ^ (k % LimbBits)]

\* floor(x / 2^k)
BigShr[x \in Digits, k \in Nat] ==
    LET drop == k \div LimbBits
        r == k % LimbBits
    IN  IF drop >= Len(x) THEN <<>>
        ELSE BigStrip[[i \in 1..(Len(x) - drop) |->
                (BigDigit(x, i + drop) \div (2 ^ r))
                + (BigDigit(x, i + drop + 1) % (2 ^ r)) * (2 ^ (LimbBits - r))]]

\* the number of binary digits of x
BigBits[x \in Digits] ==
    IF x = <<>> THEN 0
    ELSE (Len(x) - 1) * LimbBits
            + (CHOOSE b \in 1..LimbBits : 2 ^ (b - 1) <= x[Len(x)] /\ x[Len(x)] < 2 ^ b)

\* quotient and remainder of x by d, 0 < d < Limb
BigDivSmall[x \in Digits, d \in Nat] ==
    LET n == Len(x)
        rem[i \in 1..(n + 1)] == IF i = n + 1 THEN 0 ELSE (rem[i + 1] * Limb + x[i]) % d
    IN  [quotient |-> BigStrip[[i \in 1..n |-> (rem[i + 1] * Limb + x[i]) \div d]],
         remainder |-> rem[1]]

FloatZero == [s |-> 1, m |-> <<>>, e |-> 0]

\* q rounded up by one unit when up holds, as a float of exponent e
FloatCarried[sign \in {-1, 1}, m \in Digits, e \in Int] ==
    IF BigBits[m] > MantissaBits
    THEN [s |-> sign, m |-> BigShr[m, 1], e |-> e + 1]
    ELSE [s |-> sign, m |-> m, e |-> e]

\* x of more than 53 bits cut to its 53 leading bits q: to the nearest, a tie
\* to the even mantissa
FloatNearest[sign \in {-1, 1}, x \in Digits, q \in Digits, shift \in Nat, e \in Int] ==
    LET left == BigCmp[BigSub[x, BigShl[q, shift]], BigShl[<<1>>, shift - 1]]
    IN  IF left > 0 \/ (left = 0 /\ q[1] % 2 = 1)
        THEN FloatCarried[sign, BigAdd[q, <<1>>], e + shift]
        ELSE [s |-> sign, m |-> q, e |-> e + shift]

\* the float nearest to sign * x * 2^e
FloatRound[sign \in {-1, 1}, x \in Digits, e \in Int] ==
    IF x = <<>> THEN FloatZero
    ELSE IF BigBits[x] <= MantissaBits
    THEN [s |-> sign, m |-> BigShl[x, MantissaBits - BigBits[x]],
          e |-> e - (MantissaBits - BigBits[x])]
    ELSE FloatNearest[sign, x, BigShr[x, BigBits[x] - MantissaBits],
                      BigBits[x] - MantissaBits, e]

\* the digits 2 * quotient + (1 if the division left a remainder)
WithSticky[division \in [quotient : Digits, remainder : Nat]] ==
    BigAdd[BigShl[division.quotient, 1],
           IF division.remainder = 0 THEN <<>> ELSE <<1>>]

\* the float of the decimal literal or integer n / d, 0 <= n < 2^31, 0 < d < Limb
FloatOf[n \in Nat, d \in Nat] ==
    FloatRound[1, WithSticky[BigDivSmall[BigShl[BigFromInt[n], 5 * LimbBits], d]],
               -(5 * LimbBits) - 1]

FloatNeg(a) == [s |-> -a.s, m |-> a.m, e |-> a.e]

\* float(i) of an int of magnitude below 2^31
FloatOfInt(i) == IF i < 0 THEN FloatNeg(FloatOf[-i, 1]) ELSE FloatOf[i, 1]

\* a * b
FloatMul[a \in Floats, b \in Floats] ==
    FloatRound[a.s * b.s, BigMul[a.m, b.m], a.e + b.e]

\* sign_x * x * 2^e + sign_y * y * 2^e
FloatAligned[sign_x \in {-1, 1}, x \in Digits, sign_y \in {-1, 1}, y \in Digits, e \in Int] ==
    IF sign_x = sign_y THEN FloatRound[sign_x, BigAdd[x, y], e]
    ELSE IF BigCmp[x, y] >= 0 THEN FloatRound[sign_x, BigSub[x, y], e]
    ELSE FloatRound[sign_y, BigSub[y, x], e]

\* a + b, for exponents less than 2^31 binary digits apart
FloatAdd[a \in Floats, b \in Floats] ==
    IF a.m = <<>> THEN b
    ELSE IF b.m = <<>> THEN a
    ELSE IF a.e < b.e
    THEN FloatAligned[a.s, a.m, b.s, BigShl[b.m, b.e - a.e], a.e]
    ELSE FloatAligned[a.s, BigShl[a.m, a.e - b.e], b.s, b.m, b.e]

\* a / k for an integer 0 < k < Limb
FloatDivInt[a \in Floats, k \in Nat] ==
    FloatRound[a.s, WithSticky[BigDivSmall[BigShl[a.m, 2 * LimbBits], k]],
               a.e - (2 * LimbBits) - 1]

\* the sign of a: -1, 0 or 1
FloatSign[a \in Floats] == IF a.m = <<>> THEN 0 ELSE a.s

\* a <= b
FloatLe(a, b) == FloatSign[FloatAdd[b, FloatNeg(a)]] >= 0

\* max(a, b) and min(a, b) of Python: the first argument unless the second
\* is strictly larger (smaller)
FloatMax[a \in Floats, b \in Floats] == IF FloatLe(b, a) THEN a ELSE b

FloatMin[a \in Floats, b \in Floats] == IF FloatLe(a, b) THEN a ELSE b

\* int(a): towards zero, for a result of magnitude below 2^31
FloatToInt[a \in Floats] ==
    a.s * BigToInt[IF a.e >= 0 THEN BigShl[a.m, a.e] ELSE BigShr[a.m, -a.e]]

(***************************************************************************)
(* Metric calculators.                                                     *)
(***************************************************************************)
\* (ihi - ilo) / (chi - clo) * (c - clo) + ilo, the shape of every AQI branch
Interp(ilo, ihi, clo, chi, c) ==
    RatAdd(RatMul(RatDiv(Int2Rat(ihi - ilo), RatSub(chi, clo)), RatSub(c, clo)),
           Int2Rat(ilo))

\* the i-th return statement of calculate_pm25_aqi
PM25SegmentShifted(i, pm25) ==
    CASE i = 1 -> Interp(0, 50, Int2Rat(0), Int2Rat(12), pm25)
      [] i = 2 -> Interp(41, 100, Rat(121, 10), Rat(354, 10), pm25)
      [] i = 3 -> Interp(101, 150, Rat(355, 10), Rat(554, 10), pm25)
      [] i = 4 -> Interp(151, 200, Rat(555, 10), Rat(1504, 10), pm25)
      [] i = 5 -> Interp(201, 300, Rat(1505, 10), Rat(2504, 10), pm25)
      [] OTHER -> Interp(301, 500, Rat(2505, 10), Int2Rat(500), pm25)

PM25Segment(i, pm25) ==
    CASE i = 1 -> Interp(0, 50, Int2Rat(0), Int2Rat(12), pm25)
      [] i = 2 -> Interp(51, 100, Rat(121, 10), Rat(354, 10), pm25)
      [] i = 3 -> Interp(101, 150, Rat(355, 10), Rat(554, 10), pm25)
      [] i = 4 -> Interp(151, 200, Rat(555, 10), Rat(1504, 10), pm25)
      [] i = 5 -> Interp(201, 300, Rat(1505, 10), Rat(2504, 10), pm25)
      [] OTHER -> Interp(301, 500, Rat(2505, 10), Int2Rat(500), pm25)

\* upper concentration of branch i (the conditions pm25 <= ...), in tenths
PM25BreakTenths == <<120, 354, 554, 1504, 2504>>

PM25Break(i) == Rat(PM25BreakTenths[i], 10)

\* the if / elif chain: the branch that handles pm25
PM25Branch(pm25) ==
    IF RatLe(pm25, PM25Break(1)) THEN 1
    ELSE IF RatLe(pm25, PM25Break(2)) THEN 2
    ELSE IF RatLe(pm25, PM25Break(3)) THEN 3
    ELSE IF RatLe(pm25, PM25Break(4)) THEN 4
    ELSE IF RatLe(pm25, PM25Break(5)) THEN 5
    ELSE 6

calculate_pm25_aqi(pm25) == PM25Segment(PM25Branch(pm25), pm25)

calculate_no2_aqi(no2) ==
    IF RatLe(no2, Int2Rat(53)) THEN Interp(0, 50, Int2Rat(0), Int2Rat(53), no2)
    ELSE IF RatLe(no2, Int2Rat(100)) THEN Interp(51, 100, Int2Rat(54), Int2Rat(100), no2)
    ELSE IF RatLe(no2, Int2Rat(360)) THEN Interp(101, 150, Int2Rat(101), Int2Rat(360), no2)
    ELSE IF RatLe(no2, Int2Rat(649)) THEN Interp(151, 200, Int2Rat(361), Int2Rat(649), no2)
    ELSE IF RatLe(no2, Int2Rat(1249)) THEN Interp(201, 300, Int2Rat(650), Int2Rat(1249), no2)
    ELSE Interp(301, 500, Int2Rat(1250), Int2Rat(2049), no2)

\* generate_forecasts(pollution_data, forecast_days=7)
DefaultForecastDays == 7

\* WHO guideline concentrations used as normalisation denominators
WHO_NO2 == 40
WHO_PM25 == 25

\* 0.4 / 0.6 weights in place of 0.5 / 0.5
PollutionIndexSkewed(no2, pm25) ==
    RatAdd(RatDiv(RatMul(Rat(2, 5), no2), Int2Rat(WHO_NO2)),
           RatDiv(RatMul(Rat(3, 5), pm25), Int2Rat(WHO_PM25)))

\* 0.5 * no2_value / 40 + 0.5 * pm25_value / 25
PollutionIndex(no2, pm25) ==
    RatAdd(RatDiv(RatMul(Rat(1, 2), no2), Int2Rat(WHO_NO2)),
           RatDiv(RatMul(Rat(1, 2), pm25), Int2Rat(WHO_PM25)))

\* (0.4 * no2 / 40 + 0.6 * pm25 / 25) * 10
calculate_health_risk_index(no2, pm25) ==
    RatMul(RatAdd(RatMul(Rat(2, 5), RatDiv(no2, Int2Rat(WHO_NO2))),
                  RatMul(Rat(3, 5), RatDiv(pm25, Int2Rat(WHO_PM25)))),
           Int2Rat(10))

\* the PM2.5 sub-index alone
calculate_aqi_pm25_only(no2, pm25) == calculate_pm25_aqi(pm25)

\* row-wise maximum of the two sub-indices
calculate_aqi(no2, pm25) == RatMax(calculate_pm25_aqi(pm25), calculate_no2_aqi(no2))

(***************************************************************************)
(* Data frames.  A frame is a sequence of rows; a row is a function from   *)
(* column names to values.  Numeric cells are rationals.                   *)
(***************************************************************************)
Timestamps == 0..(2 * MaxDay + 1)

\* timestamp.dt.date: two timestamps (morning, evening) on every calendar day
Date(t) == t \div 2

DemoCity == "Nagpur"
DemoLat == 21
DemoLon == 79

NO2Values == {40, 50}
PM25Values == {25, 30}

SentinelSample(t, v) ==
    [timestamp |-> t, no2_value |-> Int2Rat(v), latitude |-> Int2Rat(DemoLat),
     longitude |-> Int2Rat(DemoLon), event_influenced |-> FALSE, location |-> DemoCity]

ModisSample(t, v) ==
    [timestamp |-> t, pm25_value |-> Int2Rat(v), latitude |-> Int2Rat(DemoLat),
     longitude |-> Int2Rat(DemoLon), location |-> DemoCity]

\* one row of pd.merge(..., on='timestamp', suffixes=('_sentinel', '_modis'))
JoinRow(l, r) ==
    [timestamp |-> l.timestamp,
     no2_value |-> l.no2_value,
     latitude_sentinel |-> l.latitude,
     longitude_sentinel |-> l.longitude,
     event_influenced |-> l.event_influenced,
     location_sentinel |-> l.location,
     pm25_value |-> r.pm25_value,
     latitude_modis |-> r.latitude,
     longitude_modis |-> r.longitude,
     location_modis |-> r.location]

RECURSIVE MatchRows(_, _)
MatchRows(l, right) ==
    IF right = <<>> THEN <<>>
    ELSE (IF Head(right).timestamp = l.timestamp THEN <<JoinRow(l, Head(right))>> ELSE <<>>)
            \o MatchRows(l, Tail(right))

\* a join on the calendar date instead of the exact timestamp
RECURSIVE MergeOnDate(_, _)
MergeOnDate(left, right) ==
    IF left = <<>> THEN <<>>
    ELSE LET l == Head(left)
             hit == {i \in 1..Len(right) : Date(right[i].timestamp) = Date(l.timestamp)}
         IN  (IF hit = {} THEN <<>>
              ELSE <<JoinRow(l, right[CHOOSE i \in hit : \A j \in hit : i <= j])>>)
                \o MergeOnDate(Tail(left), right)

\* pd.merge with the default how='inner': every pair of rows with equal
\* timestamps, in the order of the left frame
RECURSIVE Merge(_, _)
Merge(left, right) ==
    IF left = <<>> THEN <<>>
    ELSE MatchRows(Head(left), right) \o Merge(Tail(left), right)

\* the columns analyze_pollution_levels adds to every joined row
WithMetrics(r) ==
    r @@ [pollution_index |-> PollutionIndex(r.no2_value, r.pm25_value),
          aqi |-> calculate_aqi(r.no2_value, r.pm25_value),
          health_risk |-> calculate_health_risk_index(r.no2_value, r.pm25_value),
          exceeds_who_no2 |-> RatLt(Int2Rat(WHO_NO2), r.no2_value),
          exceeds_who_pm25 |-> RatLt(Int2Rat(WHO_PM25), r.pm25_value)]

\* pandas dtype of each column of combined_data
DType(c) ==
    CASE c = "timestamp" -> "datetime64"
      [] c \in {"location_sentinel", "location_modis"} -> "object"
      [] c \in {"event_influenced", "exceeds_who_no2", "exceeds_who_pm25"} -> "bool"
      [] c \in {"no2_value", "pm25_value"} -> "int64"
      [] OTHER -> "float64"

\* select_dtypes(include=[np.number]): np.number covers the integer and
\* floating dtypes; bool, datetime64 and object columns are left out
select_dtypes_number(columns) == {c \in columns : DType(c) \in {"int64", "float64"}}

RECURSIVE SortedSeq(_)
SortedSeq(S) ==
    IF S = {} THEN <<>>
    ELSE LET m == CHOOSE x \in S : \A y \in S : x <= y
         IN  <<m>> \o SortedSeq(S \ {m})

\* the sub-sequence of the rows whose timestamp lies on date d
RECURSIVE RowsOn(_, _)
RowsOn(rows, d) ==
    IF rows = <<>> THEN <<>>
    ELSE (IF Date(Head(rows).timestamp) = d THEN <<Head(rows)>> ELSE <<>>)
            \o RowsOn(Tail(rows), d)

ColumnOf(rows, c) == [i \in 1..Len(rows) |-> rows[i][c]]

\* numeric_data.groupby(combined_data['timestamp'].dt.date).mean(): one row per
\* distinct date, in ascending date order, each cell the mean of its group
GroupByDateMean(combined, columns) ==
    LET dates == SortedSeq({Date(combined[i].timestamp) : i \in 1..Len(combined)})
    IN  [index |-> dates,
         columns |-> columns,
         rows |-> [k \in 1..Len(dates) |->
                    LET group == RowsOn(combined, dates[k])
                    IN  [c \in columns |-> RatMean(ColumnOf(group, c))]]]

(***************************************************************************)
(* Anomaly detector and trend analyzer over the daily frame.               *)
(***************************************************************************)
RatSquare(a) == RatMul(a, a)

\* the rule with the threshold 2 in place of 3
ZScoreAbove2(values, i) ==
    LET mean == RatMean(values)
        sq == [k \in 1..Len(values) |-> RatSquare(RatSub(values[k], mean))]
        var == RatMean(sq)
    IN  /\ var.n # 0
        /\ RatLt(RatMul(Int2Rat(4), var), sq[i])

\* abs(z) > 3 for entry i of scipy.stats.zscore(values) (population standard
\* deviation, ddof = 0).  A constant column has standard deviation 0, its
\* z-scores are nan and abs(nan) > 3 is False.
ZScoreAbove3(values, i) ==
    LET mean == RatMean(values)
        sq == [k \in 1..Len(values) |-> RatSquare(RatSub(values[k], mean))]
        var == RatMean(sq)
    IN  /\ var.n # 0
        /\ RatLt(RatMul(Int2Rat(9), var), sq[i])

\* the dates of daily_data whose value in the column has abs(z) > 3
ColumnAnomalies(daily_data, c) ==
    IF c \in daily_data.columns /\ Len(daily_data.rows) > 5
    THEN {daily_data.index[i] : i \in
            {k \in 1..Len(daily_data.rows) :
                ZScoreAbove3(ColumnOf(daily_data.rows, c), k)}}
    ELSE {}

\* the NO2 column alone
detect_anomalies_no2_only(daily_data) == ColumnAnomalies(daily_data, "no2_value")

detect_anomalies(daily_data) ==
    ColumnAnomalies(daily_data, "no2_value") \cup ColumnAnomalies(daily_data, "pm25_value")

\* slope of scipy.stats.linregress(np.arange(len(y)), y):
\* sum((x - mean x)(y - mean y)) / sum((x - mean x)^2)
LinregressSlope(y) ==
    LET n == Len(y)
        xbar == Rat((n * (n - 1)) \div 2, n)
        ybar == RatMean(y)
        sxy == RatSum([i \in 1..n |->
                    RatMul(RatSub(Int2Rat(i - 1), xbar), RatSub(y[i], ybar))])
        sxx == RatSum([i \in 1..n |-> RatSquare(RatSub(Int2Rat(i - 1), xbar))])
    IN  RatDiv(sxy, sxx)

\* r_value ** 2 of scipy.stats.linregress(np.arange(len(y)), y): r is 0 when
\* y has no variance, and sxy / sqrt(sxx * syy) otherwise
LinregressRSquared(y) ==
    LET n == Len(y)
        xbar == Rat((n * (n - 1)) \div 2, n)
        ybar == RatMean(y)
        sxy == RatSum([i \in 1..n |->
                    RatMul(RatSub(Int2Rat(i - 1), xbar), RatSub(y[i], ybar))])
        sxx == RatSum([i \in 1..n |-> RatSquare(RatSub(Int2Rat(i - 1), xbar))])
        syy == RatSum([i \in 1..n |-> RatSquare(RatSub(y[i], ybar))])
    IN  IF syy.n = 0 THEN Int2Rat(0)
        ELSE RatMul(RatDiv(sxy, sxx), RatDiv(sxy, syy))

\* p_value of scipy.stats.linregress for 3 or more points, the two-sided
\* probability of the t statistic r * sqrt(df / ((1 - r + TINY) * (1 + r + TINY))):
\* 1 for r = 0, a positive number below every threshold for |r| = 1, and a
\* number strictly between 0 and 1 otherwise
LinregressPValue(y) ==
    LET r2 == LinregressRSquared(y)
    IN  IF r2.n = 0 THEN "one" ELSE IF r2 = Int2Rat(1) THEN "tiny" ELSE "between"

\* direction with a dead band: slopes of magnitude up to 1 count as stable
TrendOfDeadBand(y) ==
    LET slope == LinregressSlope(y)
    IN  [slope |-> slope,
         r_squared |-> LinregressRSquared(y),
         p_value |-> LinregressPValue(y),
         direction |-> IF RatLt(Int2Rat(1), slope) THEN "increasing"
                       ELSE IF RatLt(slope, Int2Rat(-1)) THEN "decreasing" ELSE "stable"]

TrendOf(y) ==
    LET slope == LinregressSlope(y)
    IN  [slope |-> slope,
         r_squared |-> LinregressRSquared(y),
         p_value |-> LinregressPValue(y),
         direction |-> IF slope.n > 0 THEN "increasing"
                       ELSE IF slope.n < 0 THEN "decreasing" ELSE "stable"]

\* analyze_trends: one block per pollutant column with at least 3 daily values
analyze_trends(daily_data) ==
    LET keys == {k \in {"no2_trend", "pm25_trend"} :
                    /\ (IF k = "no2_trend" THEN "no2_value" ELSE "pm25_value")
                            \in daily_data.columns
                    /\ Len(daily_data.rows) >= 3}
    IN  [k \in keys |->
            TrendOf(ColumnOf(daily_data.rows,
                             IF k = "no2_trend" THEN "no2_value" ELSE "pm25_value"))]

\* int(x) of a non-negative float
Trunc(a) == a.n \div a.d

\* the set that holds v, computed once and in full
Once(v) == {y \in {v} : y = y}

\* F(v) with v computed once, as an assignment to a local variable does
Bind(v, F(_)) == CHOOSE r \in {F(x) : x \in Once(v)} : TRUE

\* a value that may be Python's None
None == [is_none |-> TRUE]

Some(v) == [is_none |-> FALSE, value |-> v]

(***************************************************************************)
(* Forecaster.  A date is kept as the number of its day (day 0 is the first *)
(* day of the requested period); str(date), strptime and strftime with     *)
(* '%Y-%m-%d' convert between a day and the one ISO text that names it.    *)
(***************************************************************************)
\* intercept of scipy.stats.linregress(np.arange(len(y)), y)
LinregressIntercept(y) ==
    LET n == Len(y)
        xbar == Rat((n * (n - 1)) \div 2, n)
    IN  RatSub(RatMean(y), RatMul(LinregressSlope(y), xbar))

\* x itself, below 0 or not
Unclamped(x) == x

\* max(0, x)
Max0(x) == RatMax(Int2Rat(0), x)

generate_simple_forecasts(pollution_data, days) ==
    IF Len(pollution_data) < 3 THEN <<>>
    ELSE
      LET n == Len(pollution_data)
          no2_values == [k \in 1..n |-> pollution_data[k].no2_level]
          pm25_values == [k \in 1..n |-> pollution_data[k].pm25_level]
          last_date == pollution_data[n].date
      IN  [i \in 1..days |->
            LET x_pred == Int2Rat(n + i - 1)
                no2_forecast ==
                    Max0(RatAdd(RatMul(LinregressSlope(no2_values), x_pred),
                                LinregressIntercept(no2_values)))
                pm25_forecast ==
                    Max0(RatAdd(RatMul(LinregressSlope(pm25_values), x_pred),
                                LinregressIntercept(pm25_values)))
            IN  [date |-> last_date + i,
                 no2_forecast |-> no2_forecast,
                 pm25_forecast |-> pm25_forecast,
                 pollution_index |-> PollutionIndex(no2_forecast, pm25_forecast),
                 is_forecast |-> TRUE,
                 method |-> "simple_linear"]]

\* What the seasonal estimator does is not decided by this repository: fit or
\* predict may raise, or predict returns some yhat per future day.  A returned
\* series cycles through three values (below zero, zero, above zero); the
\* NO2 series starts where the outcome says and the PM2.5 series one later.
YhatValues == <<-20, 0, 35>>

Yhat(start, i) == Int2Rat(YhatValues[((start + i) % 3) + 1])

ProphetRaises == [raises |-> TRUE]

ProphetOutcomes ==
    {ProphetRaises} \cup {[raises |-> FALSE, start |-> a] : a \in 0..2}

\* generate_forecasts with the outcome of the estimator, should it be used
generate_forecasts(pollution_data, days, prophet) ==
    IF ~PROPHET_AVAILABLE \/ Len(pollution_data) < 5
    THEN generate_simple_forecasts(pollution_data, days)
    ELSE IF prophet.raises
    THEN generate_simple_forecasts(pollution_data, days)
    ELSE
      \* the last forecast_days rows of the future frame: the days after the
      \* last historical date
      LET last_date == pollution_data[Len(pollution_data)].date
      IN  [i \in 1..days |->
            LET no2_value == Yhat(prophet.start, i)
                pm25_value == Yhat(prophet.start + 1, i)
            IN  [date |-> last_date + i,
                 no2_forecast |-> Max0(no2_value),
                 pm25_forecast |-> Max0(pm25_value),
                 pollution_index |-> PollutionIndex(no2_value, pm25_value),
                 is_forecast |-> TRUE]]

(***************************************************************************)
(* Insight narrative and advanced anomaly analysis.  A sentence is kept as *)
(* the name of its template.                                               *)
(***************************************************************************)
DirectionOf(trend, key) ==
    IF key \in DOMAIN trend THEN trend[key].direction ELSE "stable"

generate_rule_based_insights(pollution_data, location) ==
    IF pollution_data = <<>> \/ "summary" \notin DOMAIN pollution_data[1]
    THEN <<"fallback">>
    ELSE
      LET summary == pollution_data[1].summary
          no2_trend == DirectionOf(summary.trend, "no2_trend")
          pm25_trend == DirectionOf(summary.trend, "pm25_trend")
      IN  <<"intro">>
          \o <<IF RatLt(Int2Rat(60), summary.avg_no2) THEN "no2_severe"
               ELSE IF RatLt(Int2Rat(40), summary.avg_no2) THEN "no2_exceeds"
               ELSE "no2_within">>
          \o <<IF RatLt(Int2Rat(35), summary.avg_pm25) THEN "pm25_critical"
               ELSE IF RatLt(Int2Rat(25), summary.avg_pm25) THEN "pm25_above"
               ELSE "pm25_acceptable">>
          \o (IF no2_trend = "increasing" /\ pm25_trend = "increasing"
              THEN <<"both_increasing">>
              ELSE IF no2_trend = "decreasing" /\ pm25_trend = "decreasing"
              THEN <<"both_decreasing">>
              ELSE IF no2_trend = "increasing"
              THEN <<"no2_increasing_pm25_stable">>
              ELSE IF pm25_trend = "increasing"
              THEN <<"pm25_increasing_no2_stable">>
              ELSE <<>>)

\* the narrative a language model would write: no branch of generate_insights
\* asks for it
generate_insightsWithModel(pollution_data, location) ==
    IF ~AI_MODELS_AVAILABLE
    THEN generate_rule_based_insights(pollution_data, location)
    ELSE <<"generated">>

\* lines 281-289: without the models the rule-based narrative; with them the
\* try block returns the rule-based narrative as well
generate_insights(pollution_data, location) ==
    IF ~AI_MODELS_AVAILABLE
    THEN generate_rule_based_insights(pollution_data, location)
    ELSE generate_rule_based_insights(pollution_data, location)

determine_anomaly_reason(no2, pm25, avg_no2, avg_pm25) ==
    LET reasons ==
          (IF RatLt(RatMul(avg_no2, Int2Rat(2)), no2) THEN <<"no2_high">>
           ELSE IF RatLt(no2, RatMul(avg_no2, Rat(3, 10))) /\ RatLt(Int2Rat(10), avg_no2)
           THEN <<"no2_low">> ELSE <<>>)
          \o (IF RatLt(RatMul(avg_pm25, Int2Rat(2)), pm25) THEN <<"pm25_high">>
              ELSE IF RatLt(pm25, RatMul(avg_pm25, Rat(3, 10))) /\ RatLt(Int2Rat(5), avg_pm25)
              THEN <<"pm25_low">> ELSE <<>>)
          \o (IF RatLt(RatMul(avg_no2, Rat(3, 2)), no2)
                 /\ RatLt(RatMul(avg_pm25, Rat(3, 2)), pm25)
              THEN <<"both_high">> ELSE <<>>)
    IN  IF reasons # <<>> THEN reasons ELSE <<"unclear">>

\* IsolationForest(contamination=0.1).fit_predict: which days it marks is not
\* decided by this repository; it marks no day, the first day or the last
\* day, or the fit raises.  score_samples lies in [-1, 0).
IsolationOutcomes == {"raise", "none", "first", "last"}

detect_anomalies_with_ai(pollution_data, isolation) ==
    IF ~AI_MODELS_AVAILABLE \/ Len(pollution_data) < 7 THEN None
    ELSE IF isolation = "raise" THEN None
    ELSE
      LET n == Len(pollution_data)
          no2_values == [k \in 1..n |-> pollution_data[k].no2_level]
          pm25_values == [k \in 1..n |-> pollution_data[k].pm25_level]
          marked == IF isolation = "none" THEN <<>>
                    ELSE IF isolation = "first" THEN <<1>> ELSE <<n>>
      IN  Some([k \in 1..Len(marked) |->
            [date |-> pollution_data[marked[k]].date,
             no2_level |-> no2_values[marked[k]],
             pm25_level |-> pm25_values[marked[k]],
             anomaly_score |-> Rat(-3, 5),
             reason |-> determine_anomaly_reason(no2_values[marked[k]],
                            pm25_values[marked[k]], RatMean(no2_values),
                            RatMean(pm25_values))]])

(***************************************************************************)
(* Weather service.                                                        *)
(***************************************************************************)
\* month of a day of the requested period, which starts on 1 January
MonthOf(date) == IF date < 31 THEN 1 ELSE 2

\* get_climate_pattern(region)[month] for Nagpur, which is also the pattern of
\* every region without an entry of its own at Nagpur's latitude band
ClimatePattern(month) ==
    IF month = 1
    THEN [min |-> 15, max |-> 28, humidity_min |-> 25, humidity_max |-> 45]
    ELSE [min |-> 18, max |-> 31, humidity_min |-> 25, humidity_max |-> 40]

WeatherSeeds == 0..2

\* The random module in fetch_weather_data: a draw is the lowest, the middle
\* or the highest value of its range (-1, 0, 1); the draws of the days and
\* factors (1 temperature .. 5 pressure, 6 rain amount) vary with the seed.
\* With seed 0 every day draws alike, so every weather column is constant.
WeatherDraw(seed, k, f) == ((seed * (k + f) + (seed \div 2) * k * f) % 3) - 1

\* low + (high - low) * (draw + 1) / 2
Between(low, high, draw) ==
    RatAdd(low, RatMul(RatSub(high, low), Rat(draw + 1, 2)))

\* round(x, 1): to the nearest tenth, a tie to the even tenth
Round1(x) ==
    LET t == RatMul(x, Int2Rat(10))
        f == t.n \div t.d
        twice == RatMul(RatSub(t, Int2Rat(f)), Int2Rat(2))
    IN  IF twice.n < twice.d THEN Rat(f, 10)
        ELSE IF twice.n > twice.d THEN Rat(f + 1, 10)
        ELSE IF f % 2 = 0 THEN Rat(f, 10) ELSE Rat(f + 1, 10)

\* one row of fetch_weather_data, for the k-th day of the range (OPENWEATHER_API_KEY
\* left at 'demo_key': no row is overwritten with a live observation)
WeatherRow(region, date, k, seed) ==
    LET climate == ClimatePattern(MonthOf(date))
        base_temp == Rat(climate.min + climate.max, 2)
    IN  [date |-> date,
         temperature |-> Round1(RatAdd(base_temp, Int2Rat(3 * WeatherDraw(seed, k, 1)))),
         humidity |-> Round1(Between(Int2Rat(climate.humidity_min),
                                     Int2Rat(climate.humidity_max),
                                     WeatherDraw(seed, k, 2))),
         wind_speed |-> Round1(Between(Int2Rat(2), Int2Rat(15), WeatherDraw(seed, k, 3))),
         precipitation |->
            IF WeatherDraw(seed, k, 4) = 1
            THEN Round1(Between(Rat(1, 2), Int2Rat(25), WeatherDraw(seed, k, 6)))
            ELSE Int2Rat(0),
         pressure |-> Round1(Between(Int2Rat(995), Int2Rat(1025), WeatherDraw(seed, k, 5))),
         location |-> region,
         latitude |-> Int2Rat(DemoLat),
         longitude |-> Int2Rat(DemoLon)]

\* one row per day of pd.date_range(start_date, end_date)
fetch_weather_data(region, start_date, end_date, seed) ==
    [k \in 1..(IF end_date >= start_date THEN end_date - start_date + 1 ELSE 0) |->
        WeatherRow(region, start_date + k - 1, k, seed)]

weather_factors == <<"temperature", "humidity", "wind_speed", "precipitation", "pressure">>

pollution_factors == <<"no2_level", "pm25_level">>

\* pd.merge(weather_data, pollution_data, on 'date', how='inner'): the pairs of
\* rows with equal date, in the order of the weather frame and, for one
\* weather row, of the pollution frame
MatchDates(weather, pollution_data) ==
    {p \in (1..Len(weather)) \X (1..Len(pollution_data)) :
        weather[p[1]].date = pollution_data[p[2]].date}

MergeOnDateColumn(weather, pollution_data) ==
    Bind(MatchDates(weather, pollution_data),
         LAMBDA pairs :
            [k \in 1..Cardinality(pairs) |->
                LET p == CHOOSE p \in pairs :
                            Cardinality({q \in pairs :
                                \/ q[1] < p[1]
                                \/ q[1] = p[1] /\ q[2] < p[2]}) = k - 1
                IN  [weather |-> weather[p[1]], pollution |-> pollution_data[p[2]]]])

\* sum of (x - mean x) * (y - mean y)
CoMoment(x, y) ==
    LET xbar == RatMean(x)
        ybar == RatMean(y)
    IN  RatSum([i \in 1..Len(x) |-> RatMul(RatSub(x[i], xbar), RatSub(y[i], ybar))])

Sign(a) == IF a.n > 0 THEN 1 ELSE IF a.n < 0 THEN -1 ELSE 0

\* A coefficient r is kept exactly as its sign and its square.
Coefficient(sign, sq) == [sign |-> sign, sq |-> sq]

ZeroCoefficient == Coefficient(0, Int2Rat(0))

NaN == [nan |-> TRUE]

\* Series.std() > 0: the sample standard deviation (ddof = 1) is nan for one
\* row, and nan > 0 is False
StdPositive(x) == Len(x) >= 2 /\ CoMoment(x, x).n # 0

\* Series.corr: Pearson coefficient, nan when it is 0 / 0
Pearson(x, y) ==
    LET sxy == CoMoment(x, y)
        sxx == CoMoment(x, x)
        syy == CoMoment(y, y)
    IN  IF sxx.n = 0 \/ syy.n = 0 THEN NaN
        ELSE Coefficient(Sign(sxy), RatMul(RatDiv(sxy, sxx), RatDiv(sxy, syy)))

\* the coefficient without the check of the standard deviations
UncheckedCorrelation(x, y) == Pearson(x, y)

\* the coefficient stored for one pair of columns
GuardedCorrelation(x, y) ==
    IF StdPositive(x) /\ StdPositive(y) THEN Pearson(x, y) ELSE ZeroCoefficient

\* math.isfinite of a coefficient
IsNumber(corr) == "nan" \notin DOMAIN corr

\* abs(corr) > 0.6, the threshold of the unused word "strongly"
StronglyCorrelated(corr) == IsNumber(corr) /\ RatLt(Rat(36, 100), corr.sq)

\* abs(corr) >= 0.3, which is False for nan
Significant(corr) == IsNumber(corr) /\ RatLe(Rat(9, 100), corr.sq)

get_weather_correlation_explanation(weather_factor, pollution_factor, correlation_value) ==
    LET pollutant == IF pollution_factor = "no2_level" THEN "NO2" ELSE "PM2.5"
        direction == IF correlation_value.sign > 0 THEN "positive" ELSE "negative"
        listed == \E i \in 1..5 : weather_factors[i] = weather_factor
    IN  [template |-> IF listed THEN weather_factor ELSE "default",
         direction |-> direction,
         weather_factor |-> weather_factor,
         pollutant |-> pollutant]

\* key.split('_', 1) of the key w_factor + '_' + p_factor
SplitKey(w_factor, p_factor) ==
    IF w_factor = "wind_speed" THEN <<"wind", "speed_" \o p_factor>>
    ELSE <<w_factor, p_factor>>

\* the function of the 10 pairs, and the explanation entries in its key order
PairOrder ==
    [k \in 1..10 |-> <<weather_factors[((k - 1) \div 2) + 1], pollution_factors[((k - 1) % 2) + 1]>>]

RECURSIVE ExplanationsFrom(_, _)
ExplanationsFrom(correlations, k) ==
    IF k > 10 THEN <<>>
    ELSE LET w == PairOrder[k][1]
             p == PairOrder[k][2]
             key == w \o "_" \o p
             corr == correlations[key]
             parts == SplitKey(w, p)
         IN  (IF Significant(corr)
              THEN <<[correlation |-> parts[1] \o "_" \o parts[2],
                      value |-> corr,
                      explanation |->
                         get_weather_correlation_explanation(parts[1], parts[2], corr)]>>
              ELSE <<>>)
             \o ExplanationsFrom(correlations, k + 1)

\* lines 181-219 for a non-empty merged frame
CorrelateMerged(merged_data) ==
    LET column(c) ==
            [i \in 1..Len(merged_data) |->
                IF \E j \in 1..5 : weather_factors[j] = c
                THEN merged_data[i].weather[c] ELSE merged_data[i].pollution[c]]
    IN  Bind([key \in {PairOrder[k][1] \o "_" \o PairOrder[k][2] : k \in 1..10} |->
                LET k == CHOOSE j \in 1..10 :
                            PairOrder[j][1] \o "_" \o PairOrder[j][2] = key
                IN  Bind(column(PairOrder[k][1]), LAMBDA x :
                    Bind(column(PairOrder[k][2]), LAMBDA y : GuardedCorrelation(x, y)))],
             LAMBDA correlations :
                Some([correlations |-> correlations,
                      explanations |-> ExplanationsFrom(correlations, 1)]))

correlate_weather_with_pollution(weather, pollution_data) ==
    IF Len(weather) = 0 \/ Len(pollution_data) = 0 THEN None
    ELSE Bind(MergeOnDateColumn(weather, pollution_data),
              LAMBDA merged_data :
                 IF Len(merged_data) = 0 THEN None ELSE CorrelateMerged(merged_data))

\* generate_trend_explanations; month is datetime.now().month
generate_trend_explanations(trend_analysis, correlations, month) ==
    IF DOMAIN trend_analysis = {}
    THEN [exc |-> "none", value |-> <<"insufficient_data", "collect_more_data">>]
    ELSE
      LET no2_trend == DirectionOf(trend_analysis, "no2_trend")
          pm25_trend == DirectionOf(trend_analysis, "pm25_trend")
          basic ==
            (IF no2_trend = "increasing" THEN <<"no2_increasing">>
             ELSE IF no2_trend = "decreasing" THEN <<"no2_decreasing">> ELSE <<>>)
            \o (IF pm25_trend = "increasing" THEN <<"pm25_increasing">>
                ELSE IF pm25_trend = "decreasing" THEN <<"pm25_decreasing">> ELSE <<>>)
          \* no sentence names a city, so the monsoon sentence is never added
          seasonal ==
            IF 5 <= month /\ month <= 9 THEN <<>>
            ELSE IF (11 <= month \/ month <= 2) /\ pm25_trend = "increasing"
            THEN <<"winter_inversion">> ELSE <<>>
          from_weather ==
            IF correlations.is_none THEN <<>>
            ELSE [k \in 1..Len(correlations.value.explanations) |->
                    correlations.value.explanations[k].explanation]
      IN  IF 5 <= month /\ month <= 9 /\ basic = <<>>
          THEN \* explanations[0] on an empty list
               [exc |-> "IndexError", value |-> <<>>]
          ELSE [exc |-> "none",
                value |-> basic \o seasonal \o from_weather \o <<"urban_factors">>]

(***************************************************************************)
(* analyze_pollution_levels.  The list it returns is the daily records;    *)
(* the first of them also carries the summary and the enrichment payloads. *)
(***************************************************************************)
Summary(daily_data) ==
    LET has(c) == c \in daily_data.columns
        col(c) == ColumnOf(daily_data.rows, c)
    IN  [avg_no2 |-> IF has("no2_value") THEN RatMean(col("no2_value")) ELSE Int2Rat(0),
         avg_pm25 |-> IF has("pm25_value") THEN RatMean(col("pm25_value")) ELSE Int2Rat(0),
         max_no2 |-> IF has("no2_value") THEN RatMaxOf(col("no2_value")) ELSE Int2Rat(0),
         max_pm25 |-> IF has("pm25_value") THEN RatMaxOf(col("pm25_value")) ELSE Int2Rat(0),
         days_exceeding_who_no2 |->
            IF has("exceeds_who_no2") THEN Trunc(RatSum(col("exceeds_who_no2"))) ELSE 0,
         days_exceeding_who_pm25 |->
            IF has("exceeds_who_pm25") THEN Trunc(RatSum(col("exceeds_who_pm25"))) ELSE 0,
         trend |-> analyze_trends(daily_data)]

\* row.get(first, row.get(second, 0))
RowGet2(row, first, second) ==
    IF first \in DOMAIN row THEN row[first]
    ELSE IF second \in DOMAIN row THEN row[second] ELSE Int2Rat(0)

RowGet(row, c) == IF c \in DOMAIN row THEN row[c] ELSE Int2Rat(0)

DailyRecord(date, row, anomaly_dates, location) ==
    [date |-> date,
     no2_level |-> RowGet(row, "no2_value"),
     pm25_level |-> RowGet(row, "pm25_value"),
     pollution_index |-> row["pollution_index"],
     aqi |-> RowGet(row, "aqi"),
     health_risk |-> RowGet(row, "health_risk"),
     is_anomaly |-> date \in anomaly_dates,
     latitude |-> RowGet2(row, "latitude_sentinel", "latitude"),
     longitude |-> RowGet2(row, "longitude_sentinel", "longitude"),
     location |-> location]

\* lines 44-115: the exception raised, or "none" and the daily records with the
\* summary on the first of them
DailyRecords(sentinel, modis) ==
    Bind(Merge(sentinel, modis), LAMBDA merged :
    Bind([i \in 1..Len(merged) |-> WithMetrics(merged[i])], LAMBDA combined_data :
      IF combined_data = <<>>
      THEN \* combined_data['location_sentinel'].iloc[0] on an empty frame
           [exc |-> "IndexError", result |-> <<>>]
      ELSE
        Bind(combined_data[1].location_sentinel, LAMBDA location :
        Bind(GroupByDateMean(combined_data,
                             select_dtypes_number(DOMAIN combined_data[1])),
             LAMBDA daily_data :
        Bind(detect_anomalies(daily_data), LAMBDA anomaly_dates :
        Bind([k \in 1..Len(daily_data.rows) |->
                DailyRecord(daily_data.index[k], daily_data.rows[k],
                            anomaly_dates, location)],
             LAMBDA records :
        Bind(Summary(daily_data), LAMBDA summary :
          [exc |-> "none",
           result |-> [k \in 1..Len(records) |->
                        IF k = 1 THEN records[k] @@ [summary |-> summary]
                        ELSE records[k]]])))))))

\* result[-1][key] = value
SetOnLast(result, key, value) ==
    [k \in 1..Len(result) |->
        IF k = Len(result) THEN (key :> value) @@ result[k] ELSE result[k]]

\* result[0][key] = value
SetOnFirst(result, key, value) ==
    [k \in 1..Len(result) |-> IF k = 1 THEN (key :> value) @@ result[k] ELSE result[k]]

\* result[0][key] = value if value is truthy
SetOnFirstIfAny(result, key, value) ==
    IF value # <<>> THEN SetOnFirst(result, key, value) ELSE result

\* lines 118-135: the payloads of the optional libraries, each attached when it
\* is truthy
WithAIAnalysis(result, prophet, isolation) ==
    IF ~(AI_MODELS_AVAILABLE /\ Len(result) >= 5) THEN result
    ELSE
      Bind(SetOnFirstIfAny(result, "forecasts",
                           generate_forecasts(result, DefaultForecastDays, prophet)),
           LAMBDA r1 :
      Bind(SetOnFirstIfAny(r1, "ai_insights", generate_insights(r1, r1[1].location)),
           LAMBDA r2 :
      Bind(detect_anomalies_with_ai(r2, isolation),
           LAMBDA advanced_anomalies :
              IF advanced_anomalies.is_none THEN r2
              ELSE SetOnFirstIfAny(r2, "anomaly_analysis", advanced_anomalies.value))))

\* lines 153-165: what the weather block attaches
AttachWeather(result, weather, correlations) ==
    Bind(SetOnFirst(IF ~correlations.is_none
                    THEN SetOnFirst(result, "weather_correlations", correlations.value)
                    ELSE result,
                    "weather_data", weather),
         LAMBDA r2 :
    Bind(generate_trend_explanations(r2[1].summary.trend, correlations, current_month),
         LAMBDA explained :
            IF explained.exc # "none" THEN r2
            ELSE SetOnFirst(r2, "trend_explanations", explained.value)))

\* lines 138-167: the weather of the period, its correlations with the records
\* and the explanations of the trend; an exception ends the block and keeps
\* what it attached before
WithWeather(result) ==
    Bind(fetch_weather_data(result[1].location, result[1].date,
                            result[Len(result)].date, weather_seed),
         LAMBDA weather :
    Bind(correlate_weather_with_pollution(weather, result),
         LAMBDA correlations : AttachWeather(result, weather, correlations)))

\* The optional libraries that a call consults, and so the outcomes of theirs
\* that can tell two calls apart.
ProphetConsulted(result) ==
    AI_MODELS_AVAILABLE /\ PROPHET_AVAILABLE /\ Len(result) >= 5

IsolationConsulted(result) == AI_MODELS_AVAILABLE /\ Len(result) >= 7

\* lines 105-169 after the daily records
Enriched(daily, prophet, isolation) ==
    IF daily.exc # "none" THEN daily
    ELSE IF daily.result = <<>> THEN daily
    ELSE [exc |-> "none",
          result |-> Bind(WithAIAnalysis(daily.result, prophet, isolation), WithWeather)]

\* the outcome of analyze_pollution_levels(sentinel, modis): the exception it
\* raises, or "none" and the list it returns
analyze_pollution_levels(sentinel, modis, prophet, isolation) ==
    Bind(DailyRecords(sentinel, modis), LAMBDA daily : Enriched(daily, prophet, isolation))

(***************************************************************************)
(* Surroundings of a request.                                              *)
(***************************************************************************)
\* the process without the optional libraries, in January, the random module
\* in its first state
FallbackBuild ==
    /\ AI_MODELS_AVAILABLE = FALSE
    /\ PROPHET_AVAILABLE = FALSE
    /\ weather_seed = 0
    /\ current_month = 1

\* neither the correlator nor the forecaster has been called on its own
NoDirectCalls ==
    /\ weather_data = <<>>
    /\ weather_correlations = None
    /\ forecast_days = DefaultForecastDays
    /\ forecasts = <<>>
    /\ call_args = <<>>
    /\ call_result = <<>>

(***************************************************************************)
(* The join specification: two sample collections are filled in timestamp  *)
(* order, one sample per timestamp per source, and analysed.               *)
(***************************************************************************)
Init ==
    /\ pc = "fetch"
    /\ sentinel_data = <<>>
    /\ modis_data = <<>>
    /\ pollution_levels = <<>>
    /\ analyze_exc = "none"
    /\ risk_zones = <<>>
    /\ classify_exc = "none"
    /\ pm25_in = <<>>
    /\ pm25_out = <<>>
    /\ FallbackBuild
    /\ NoDirectCalls

LastTimestamp(frame) == IF frame = <<>> THEN -1 ELSE frame[Len(frame)].timestamp

AddSentinelSample ==
    /\ pc = "fetch"
    /\ Len(sentinel_data) < MaxSamples
    /\ \E t \in Timestamps, v \in NO2Values :
          /\ t > LastTimestamp(sentinel_data)
          /\ sentinel_data' = Append(sentinel_data, SentinelSample(t, v))
    /\ UNCHANGED <<pc, modis_data, pollution_levels, analyze_exc, risk_zones,
                   classify_exc, pm25_in, pm25_out>>
    /\ UNCHANGED <<environment, correlator_vars, forecaster_vars, direct_call>>

AddModisSample ==
    /\ pc = "fetch"
    /\ Len(modis_data) < MaxSamples
    /\ \E t \in Timestamps, v \in PM25Values :
          /\ t > LastTimestamp(modis_data)
          /\ modis_data' = Append(modis_data, ModisSample(t, v))
    /\ UNCHANGED <<pc, sentinel_data, pollution_levels, analyze_exc, risk_zones,
                   classify_exc, pm25_in, pm25_out>>
    /\ UNCHANGED <<environment, correlator_vars, forecaster_vars, direct_call>>

AnalyzePollutionLevels ==
    /\ pc = "fetch"
    /\ \E daily \in Once(DailyRecords(sentinel_data, modis_data)) :
           \E prophet \in (IF ProphetConsulted(daily.result)
                            THEN ProphetOutcomes ELSE {ProphetRaises}),
              isolation \in (IF IsolationConsulted(daily.result)
                              THEN IsolationOutcomes ELSE {"raise"}) :
              \* analyze_pollution_levels(sentinel_data, modis_data, prophet, isolation)
              \E out \in Once(Enriched(daily, prophet, isolation)) :
                  /\ analyze_exc' = out.exc
                  /\ pollution_levels' = out.result
    /\ pc' = "analyzed"
    /\ UNCHANGED <<sentinel_data, modis_data, risk_zones, classify_exc, pm25_in, pm25_out>>
    /\ UNCHANGED <<environment, correlator_vars, forecaster_vars, direct_call>>

Next == AddSentinelSample \/ AddModisSample \/ AnalyzePollutionLevels

Spec == Init /\ [][Next]_vars

TimestampsOf(frame) == {frame[i].timestamp : i \in 1..Len(frame)}

SharedTimestamps == TimestampsOf(sentinel_data) \cap TimestampsOf(modis_data)

Analyzed == pc = "analyzed"

Returned == pc = "analyzed" /\ analyze_exc = "none"

\* C1: when the two collections share no timestamp (also when one is empty),
\* analyze_pollution_levels raises nothing and returns the empty list.
C1_EmptyJoinReturnsEmpty ==
    (Analyzed /\ SharedTimestamps = {}) =>
        (analyze_exc = "none" /\ pollution_levels = <<>>)

\* C3: the dates of the returned daily records are exactly the calendar dates
\* of the timestamps present in both collections, each once, ascending.
C3_DatesAreJoinedDates ==
    Returned =>
        /\ {pollution_levels[i].date : i \in 1..Len(pollution_levels)}
              = {Date(t) : t \in SharedTimestamps}
        /\ \A i, j \in 1..Len(pollution_levels) :
              i < j => pollution_levels[i].date < pollution_levels[j].date

\* C3 witness: a returned series that lacks the date of a one-sided timestamp
C3_Witness ==
    /\ Returned
    /\ pollution_levels # <<>>
    /\ \E t \in TimestampsOf(sentinel_data) \ TimestampsOf(modis_data) :
          \A i \in 1..Len(pollution_levels) : pollution_levels[i].date # Date(t)

\* C4: every returned daily record has pollution_index = 0.5*no2_level/40 +
\* 0.5*pm25_level/25 and health_risk = (0.4*no2_level/40 + 0.6*pm25_level/25)*10
\* on its own (daily mean) fields; no2_level 40 with pm25_level 25 gives 1.
C4_RecordFormulas ==
    Returned =>
        \A i \in 1..Len(pollution_levels) :
            LET r == pollution_levels[i]
            IN  /\ r.pollution_index
                     = RatAdd(RatMul(Rat(1, 80), r.no2_level), RatMul(Rat(1, 50), r.pm25_level))
                /\ r.health_risk
                     = RatAdd(RatMul(Rat(1, 10), r.no2_level), RatMul(Rat(6, 25), r.pm25_level))
                /\ (r.no2_level = Int2Rat(40) /\ r.pm25_level = Int2Rat(25))
                     => r.pollution_index = Int2Rat(1)

\* C4 witness: a day that averages two joined samples with different values,
\* and a day at the WHO guideline values
C4_Witness ==
    /\ Returned
    /\ \E i \in 1..Len(pollution_levels) :
          /\ pollution_levels[i].no2_level = Int2Rat(45)
          /\ pollution_levels[i].pm25_level = Rat(55, 2)
    /\ Len(sentinel_data) = 2

\* C5: the summary's WHO-exceedance day counts equal the number of daily
\* records whose NO2 value exceeds 40, respectively whose PM2.5 exceeds 25.
C5_ExceedanceCounts ==
    (Returned /\ pollution_levels # <<>>) =>
        LET s == pollution_levels[1].summary
            days == 1..Len(pollution_levels)
        IN  /\ s.days_exceeding_who_no2
                 = Cardinality({i \in days :
                        RatLt(Int2Rat(WHO_NO2), pollution_levels[i].no2_level)})
            /\ s.days_exceeding_who_pm25
                 = Cardinality({i \in days :
                        RatLt(Int2Rat(WHO_PM25), pollution_levels[i].pm25_level)})

(***************************************************************************)
(* The single-pair specification: one NO2 sample and one PM2.5 sample,     *)
(* with concentrations from every branch of the two sub-index tables, are  *)
(* analysed.                                                               *)
(***************************************************************************)
PairNO2 == {0, 40, 53, 80, 110, 400, 700, 1300}
PairPM25 == {0, 12, 25, 40, 60, 200, 300}

InitPair ==
    /\ pc = "fetch"
    /\ \E t \in Timestamps, v \in PairNO2 : sentinel_data = <<SentinelSample(t, v)>>
    /\ \E t \in Timestamps, v \in PairPM25 : modis_data = <<ModisSample(t, v)>>
    /\ pollution_levels = <<>>
    /\ analyze_exc = "none"
    /\ risk_zones = <<>>
    /\ classify_exc = "none"
    /\ pm25_in = <<>>
    /\ pm25_out = <<>>
    /\ FallbackBuild
    /\ NoDirectCalls

NextPair == AnalyzePollutionLevels

SpecPair == InitPair /\ [][NextPair]_vars

SinglePair ==
    /\ Len(sentinel_data) = 1
    /\ Len(modis_data) = 1
    /\ sentinel_data[1].timestamp = modis_data[1].timestamp

\* C11: one NO2 sample and one PM2.5 sample with the same timestamp give
\* exactly one daily record; its no2_level, pm25_level, latitude and longitude
\* are the sample's values, its pollution_index and health_risk the direct
\* formulas, and its aqi the larger of the two sub-indices.
C11_SinglePairRecord ==
    (Analyzed /\ SinglePair) =>
        /\ analyze_exc = "none"
        /\ Len(pollution_levels) = 1
        /\ LET r == pollution_levels[1]
               no2 == sentinel_data[1].no2_value
               pm25 == modis_data[1].pm25_value
               no2_aqi == calculate_no2_aqi(no2)
               pm25_aqi == calculate_pm25_aqi(pm25)
           IN  /\ r.date = Date(sentinel_data[1].timestamp)
               /\ r.no2_level = no2
               /\ r.pm25_level = pm25
               /\ r.latitude = sentinel_data[1].latitude
               /\ r.longitude = sentinel_data[1].longitude
               /\ r.pollution_index
                    = RatAdd(RatMul(Rat(1, 80), no2), RatMul(Rat(1, 50), pm25))
               /\ r.health_risk
                    = RatAdd(RatMul(Rat(1, 10), no2), RatMul(Rat(6, 25), pm25))
               /\ r.aqi \in {no2_aqi, pm25_aqi}
               /\ RatLe(no2_aqi, r.aqi)
               /\ RatLe(pm25_aqi, r.aqi)

\* C11 witness: a single pair whose NO2 sub-index is the larger one
C11_Witness ==
    /\ Returned
    /\ SinglePair
    /\ Len(pollution_levels) = 1
    /\ pollution_levels[1].aqi = calculate_no2_aqi(sentinel_data[1].no2_value)
    /\ RatLt(calculate_pm25_aqi(modis_data[1].pm25_value), pollution_levels[1].aqi)

(***************************************************************************)
(* The daily-series specification: both sources deliver one sample per day *)
(* on the same consecutive days at one place, as the data supplier does.   *)
(* The NO2 series is a background pattern with one day replaced; the       *)
(* PM2.5 series is a three-day cycle, with or without a spike on the last  *)
(* day.                                                                    *)
(***************************************************************************)
SeriesPatterns == {"alternating", "step5", "step10", "ramp"}

\* NO2 value of day i of a background pattern
Background(pattern, i) ==
    CASE pattern = "alternating" -> IF i % 2 = 1 THEN 30 ELSE 50
      [] pattern = "step5" -> IF i = 1 THEN 35 ELSE 30
      [] pattern = "ramp" -> 25 + 5 * i
      [] OTHER -> IF i = 1 THEN 40 ELSE 30

ReplacedValues == {30, 51, 61, 140}

\* PM2.5 value of day i: a three-day cycle
PM25Series(i) == 60 + 3 * (i % 3)

\* PM2.5 value of a day on which the particulate level spikes
PM25Spike == 400

InitDaily ==
    /\ pc = "fetch"
    /\ \E n \in 1..MaxSeriesDays, pattern \in SeriesPatterns,
          day \in 1..MaxSeriesDays, v \in ReplacedValues, pm_spike \in BOOLEAN :
          /\ day <= n
          /\ sentinel_data =
                [i \in 1..n |->
                    SentinelSample(2 * (i - 1), IF i = day THEN v ELSE Background(pattern, i))]
          /\ modis_data =
                [i \in 1..n |->
                    ModisSample(2 * (i - 1),
                                IF pm_spike /\ i = n THEN PM25Spike ELSE PM25Series(i))]
    /\ pollution_levels = <<>>
    /\ analyze_exc = "none"
    /\ risk_zones = <<>>
    /\ classify_exc = "none"
    /\ pm25_in = <<>>
    /\ pm25_out = <<>>
    /\ FallbackBuild
    /\ NoDirectCalls

NextDaily == AnalyzePollutionLevels

SpecDaily == InitDaily /\ [][NextDaily]_vars

RECURSIVE SumInt(_)
SumInt(s) == IF s = <<>> THEN 0 ELSE Head(s) + SumInt(Tail(s))

\* the NO2 input values of the days other than day i
OtherNO2(i) ==
    [k \in 1..(Len(sentinel_data) - 1) |->
        sentinel_data[IF k < i THEN k ELSE k + 1].no2_value.n]

\* day i's NO2 input value equals mean + 10 * stdev of the other days' values,
\* stdev being their population standard deviation:
\* with k others of sum S and sum of squares Q, (k*x - S)^2 = 100 * (k*Q - S^2)
IsMeanPlus10Stdev(i) ==
    LET o == OtherNO2(i)
        k == Len(o)
        S == SumInt(o)
        Q == SumInt([j \in 1..k |-> o[j] * o[j]])
        x == sentinel_data[i].no2_value.n
    IN  /\ k >= 1
        /\ k * x >= S
        /\ (k * x - S) * (k * x - S) = 100 * (k * Q - S * S)

\* the other days' NO2 values are not all equal (their stdev is not 0)
OthersVary(i) ==
    \E j, k \in 1..(Len(sentinel_data) - 1) : OtherNO2(i)[j] # OtherNO2(i)[k]

\* C9: in a series of 6 or more days, a day whose NO2 value is mean + 10*stdev
\* of the other days' values has is_anomaly = true.  It is stated for the
\* series in which the value is a real outlier, i.e. the other days vary; in
\* a constant series no day can be flagged at all.
C9_SpikeFlaggedFrom6Days ==
    Returned =>
        \A i \in 1..Len(pollution_levels) :
            (Len(pollution_levels) >= 6 /\ IsMeanPlus10Stdev(i) /\ OthersVary(i))
                => pollution_levels[i].is_anomaly

\* the input values of the two pollutants, one per day
NO2Input == [i \in 1..Len(sentinel_data) |-> sentinel_data[i].no2_value.n]

PM25Input == [i \in 1..Len(modis_data) |-> modis_data[i].pm25_value.n]

\* numerator of the least-squares slope of y against the day index 0, 1, 2, ...
\* (its denominator n * sum(i^2) - sum(i)^2 is positive for 2 or more days)
SlopeNumerator(y) ==
    LET n == Len(y)
    IN  n * SumInt([i \in 1..n |-> (i - 1) * y[i]])
            - SumInt([i \in 1..n |-> i - 1]) * SumInt(y)

SlopeDenominator(n) ==
    n * SumInt([i \in 1..n |-> (i - 1) * (i - 1)])
        - SumInt([i \in 1..n |-> i - 1]) * SumInt([i \in 1..n |-> i - 1])

\* the trend entry of one pollutant agrees with the least-squares slope of y
TrendAgrees(entry, y) ==
    /\ entry.slope = Rat(SlopeNumerator(y), SlopeDenominator(Len(y)))
    /\ entry.direction = "increasing" <=> SlopeNumerator(y) > 0
    /\ entry.direction = "decreasing" <=> SlopeNumerator(y) < 0
    /\ entry.direction = "stable" <=> SlopeNumerator(y) = 0

\* C16: with 3 or more daily values the trend of each pollutant has direction
\* increasing iff the least-squares slope against the day index is > 0,
\* decreasing iff it is < 0 and stable iff it is exactly 0; with fewer than 3
\* daily values the trend block has no key for the pollutant.
C16_TrendDirection ==
    (Returned /\ pollution_levels # <<>>) =>
        LET trend == pollution_levels[1].summary.trend
        IN  IF Len(pollution_levels) < 3
            THEN DOMAIN trend = {}
            ELSE /\ DOMAIN trend = {"no2_trend", "pm25_trend"}
                 /\ TrendAgrees(trend.no2_trend, NO2Input)
                 /\ TrendAgrees(trend.pm25_trend, PM25Input)

\* C16 witness: a perfectly linear increasing NO2 series of 3 or more days
C16_Witness ==
    /\ Returned
    /\ Len(pollution_levels) >= 3
    /\ \A i \in 1..Len(sentinel_data) : NO2Input[i] = 25 + 5 * i
    /\ pollution_levels[1].summary.trend.no2_trend.direction = "increasing"
    /\ pollution_levels[1].summary.trend.no2_trend.slope = Int2Rat(5)

\* abs(z) > 3 for entry i of the integer column y, z taken with the population
\* standard deviation: with S the sum and Q the sum of squares of the n
\* values, (n*y[i] - S)^2 > 9 * (n*Q - S^2), and the column is not constant
ZAbove3(y, i) ==
    LET n == Len(y)
        S == SumInt(y)
        Q == SumInt([k \in 1..n |-> y[k] * y[k]])
    IN  /\ n * Q - S * S # 0
        /\ (n * y[i] - S) * (n * y[i] - S) > 9 * (n * Q - S * S)

\* C17: with fewer than 6 daily values no day is flagged; with 6 or more a
\* record has is_anomaly = true iff its NO2 value or its PM2.5 value has
\* |z-score| > 3 within its own column.
C17_AnomalyRule ==
    Returned =>
        \A i \in 1..Len(pollution_levels) :
            pollution_levels[i].is_anomaly
                <=> /\ Len(pollution_levels) >= 6
                    /\ ZAbove3(NO2Input, i) \/ ZAbove3(PM25Input, i)

\* C17 witness: a day flagged for its PM2.5 value alone
C17_Witness ==
    /\ Returned
    /\ \E i \in 1..Len(pollution_levels) :
          /\ pollution_levels[i].is_anomaly
          /\ ZAbove3(PM25Input, i)
          /\ ~ZAbove3(NO2Input, i)

(***************************************************************************)
(* Risk zone classifier.                                                   *)
(***************************************************************************)
Min(a, b) == IF a < b THEN a ELSE b

\* [pollution_index, latitude, longitude] of every record
DataPoints(pollution_data) ==
    [i \in 1..Len(pollution_data) |->
        <<pollution_data[i].pollution_index, pollution_data[i].latitude,
          pollution_data[i].longitude>>]

Dist2(p, q) ==
    RatAdd(RatSquare(RatSub(p[1], q[1])),
           RatAdd(RatSquare(RatSub(p[2], q[2])), RatSquare(RatSub(p[3], q[3]))))

Members(labels, c) == {i \in DOMAIN labels : labels[i] = c}

Centroid(points, labels, c) ==
    LET m == SortedSeq(Members(labels, c))
    IN  <<RatMean([k \in 1..Len(m) |-> points[m[k]][1]]),
          RatMean([k \in 1..Len(m) |-> points[m[k]][2]]),
          RatMean([k \in 1..Len(m) |-> points[m[k]][3]])>>

\* cluster ids numbered in the order of their first occurrence
FirstOccurrenceOrder(labels) ==
    \A i \in DOMAIN labels :
        \/ labels[i] = 0
        \/ \E j \in 1..(i - 1) : labels[j] = labels[i] - 1

\* KMeans(n_clusters=3, random_state=0).fit(points).labels_: which of the
\* converged labelings the seeded initialisation leads to is not decided by
\* this repository, so every labeling k-means can converge to is allowed:
\* equal rows share a label, min(3, number of distinct rows) labels are in
\* use, every centre is the mean of its cluster and every row is labelled
\* with a nearest centre.  The cluster ids themselves never reach the result
\* of predict_risk_zones (only the partition and the order in which the
\* clusters first occur do), so one numbering per partition is kept.
KMeansLabels(points) ==
    LET n == Len(points)
        distinct == Cardinality({points[i] : i \in 1..n})
    IN  {labels \in [1..n -> 0..2] :
            /\ FirstOccurrenceOrder(labels)
            /\ \A i, j \in 1..n : points[i] = points[j] => labels[i] = labels[j]
            /\ Cardinality({labels[i] : i \in 1..n}) = Min(3, distinct)
            /\ LET used == {labels[j] : j \in 1..n}
                   centre == [c \in used |-> Centroid(points, labels, c)]
               IN  \A i \in 1..n : \A c \in used :
                      RatLe(Dist2(points[i], centre[labels[i]]),
                            Dist2(points[i], centre[c]))}

\* the keys of cluster_avg_pollution in insertion order: cluster ids in the
\* order of their first occurrence in labels_
RECURSIVE FirstOccurrences(_, _)
FirstOccurrences(labels, seen) ==
    IF labels = <<>> THEN <<>>
    ELSE IF Head(labels) \in seen THEN FirstOccurrences(Tail(labels), seen)
    ELSE <<Head(labels)>> \o FirstOccurrences(Tail(labels), seen \cup {Head(labels)})

ClusterAvgPollution(points, labels, c) ==
    LET m == SortedSeq(Members(labels, c))
    IN  RatMean([k \in 1..Len(m) |-> points[m[k]][1]])

\* insert item x into a sequence sorted by descending avg, after its equals
RECURSIVE InsertDesc(_, _)
InsertDesc(sorted, x) ==
    IF sorted = <<>> THEN <<x>>
    ELSE IF RatLt(Head(sorted).avg, x.avg) THEN <<x>> \o sorted
    ELSE <<Head(sorted)>> \o InsertDesc(Tail(sorted), x)

RECURSIVE InsertAsc(_, _)
InsertAsc(sorted, x) ==
    IF sorted = <<>> THEN <<x>>
    ELSE IF RatLt(x.avg, Head(sorted).avg) THEN <<x>> \o sorted
    ELSE <<Head(sorted)>> \o InsertAsc(Tail(sorted), x)

RECURSIVE SortAscending(_)
SortAscending(items) ==
    IF items = <<>> THEN <<>>
    ELSE InsertAsc(SortAscending(SubSeq(items, 1, Len(items) - 1)), items[Len(items)])

\* sorted(cluster_avg_pollution.items(), key=lambda x: x[1], reverse=True):
\* a stable sort, clusters of equal mean keep their insertion order
RECURSIVE SortedClusters(_)
SortedClusters(items) ==
    IF items = <<>> THEN <<>>
    ELSE InsertDesc(SortedClusters(SubSeq(items, 1, Len(items) - 1)), items[Len(items)])

RiskLevels == <<"high", "medium", "low">>

Population(location) ==
    CASE location = "Nagpur" -> 2400000
      [] location = "Mumbai" -> 12400000
      [] location = "Delhi" -> 19000000
      [] location = "London" -> 8900000
      [] location = "Shanghai" -> 26000000
      [] OTHER -> 1000000

RiskPercentage(risk_level) ==
    CASE risk_level = "high" -> Rat(15, 100)
      [] risk_level = "medium" -> Rat(30, 100)
      [] risk_level = "low" -> Rat(40, 100)
      [] risk_level = "unknown" -> Rat(5, 100)
      [] OTHER -> Rat(1, 100)

\* the float of a decimal literal
Literal(a) == FloatOf[a.n, a.d]

\* the floats of the literals 0.7, 0.1, 0.5 and 1.5
VariationBase == Literal(Rat(7, 10))

VariationStep == Literal(Rat(1, 10))

VariationLow == Literal(Rat(1, 2))

VariationHigh == Literal(Rat(3, 2))

\* int(population * percentage * variation_factor / 3) in float arithmetic,
\* every operation rounded to the nearest float
estimate_affected_population(location, risk_level, variant) ==
    FloatToInt[
        FloatDivInt[
            FloatMul[
                \* base
                FloatMul[FloatOfInt(Population(location)),
                         Literal(RiskPercentage(risk_level))],
                \* variation_factor
                FloatMax[VariationLow,
                         FloatMin[VariationHigh,
                                  FloatAdd[VariationBase,
                                           FloatMul[FloatOfInt(variant), VariationStep]]]]],
            3]]

\* The random module: a draw is one of three levels of its range (lowest,
\* middle, highest).  The draws of successive zones and tiers cycle through
\* the levels, starting from the level the seed selects, so that every zone
\* takes every level and every two zones take every pair of levels for some
\* seed.
Seeds == 0..2

Level(seed, tier, j, draw) == ((seed + j + draw) % 3) - 1

\* random.uniform(-width, width)
Uniform(width, level) == RatMul(Int2Rat(level), width)

\* zone_distances / the distance of the synthetic branch
ZoneDistance(risk_level) ==
    CASE risk_level = "high" -> Rat(2, 100)
      [] risk_level = "medium" -> Rat(4, 100)
      [] OTHER -> Rat(6, 100)

\* A synthesised coordinate center + radius * f(2*pi*slot/slots + jitter), f
\* being sin for latitudes and cos for longitudes, is kept in this polar form.
Polar(center, radius, slot, slots, jitter, f) ==
    [center |-> center, radius |-> radius, slot |-> slot, slots |-> slots,
     angle_jitter |-> jitter, f |-> f]

OptionalKeys(pollution_data, i) ==
    {k \in {"aqi", "health_risk"} :
        Len(pollution_data) >= i /\ k \in DOMAIN pollution_data[i]}

\* the zones of one tier when all input rows share one coordinate
DistributedZones(pollution_data, rank, avg, center_lat, center_lng, location, seed) ==
    LET risk_level == RiskLevels[rank]
        num_points == IF risk_level = "high" THEN 3 ELSE IF risk_level = "medium" THEN 4 ELSE 5
    IN  [jj \in 1..num_points |->
            LET j == jj - 1
                angle_jitter == Uniform(Rat(2, 10), Level(seed, rank, j, 0))
                distance_jitter == Uniform(Rat(5, 1000), Level(seed, rank, j, 1))
                radius == RatAdd(ZoneDistance(risk_level), distance_jitter)
                variation == RatMul(avg, Uniform(Rat(15, 100), Level(seed, rank, j, 2)))
            IN  [latitude |-> Polar(center_lat, radius, j, num_points, angle_jitter, "sin"),
                 longitude |-> Polar(center_lng, radius, j, num_points, angle_jitter, "cos"),
                 pollution_index |-> RatAdd(avg, variation),
                 risk_level |-> risk_level,
                 location |-> location,
                 estimated_affected_population |->
                    estimate_affected_population(location, risk_level, j)]
                @@ [k \in OptionalKeys(pollution_data, rank) |-> pollution_data[rank][k]]]

\* the synthetic branch with the 3 / 4 / 5 rule and the +/- 15 % variation of
\* the distributed branch
SyntheticZonesAsDistributed(rank, center_lat, center_lng, location, seed) ==
    LET level == RiskLevels[rank]
        num_points == IF level = "high" THEN 3 ELSE IF level = "medium" THEN 4 ELSE 5
        base == IF level = "high" THEN Rat(25, 10)
                ELSE IF level = "medium" THEN Rat(15, 10) ELSE Rat(8, 10)
    IN  [ii \in 1..num_points |->
            LET i == ii - 1
                angle_jitter == RatMul(Rat(2, 10), Rat(Level(seed, rank, i, 0) + 1, 2))
                distance_adjusted ==
                    RatAdd(ZoneDistance(level),
                           RatMul(Rat(1, 100), Rat(Level(seed, rank, i, 1) + 1, 2)))
            IN  [latitude |-> Polar(center_lat, distance_adjusted, i, num_points, angle_jitter, "sin"),
                 longitude |-> Polar(center_lng, distance_adjusted, i, num_points, angle_jitter, "cos"),
                 pollution_index |->
                    RatAdd(base, RatMul(base, Uniform(Rat(15, 100), Level(seed, rank, i, 2)))),
                 risk_level |-> level,
                 location |-> location,
                 estimated_affected_population |->
                    estimate_affected_population(location, level, 0)]]

\* the zones of one tier when fewer than 3 rows are given
SyntheticZones(rank, center_lat, center_lng, location, seed) ==
    LET level == RiskLevels[rank]
        num_points == IF level = "high" THEN 2 ELSE IF level = "medium" THEN 3 ELSE 4
        base == IF level = "high" THEN Rat(25, 10)
                ELSE IF level = "medium" THEN Rat(15, 10) ELSE Rat(8, 10)
    IN  [ii \in 1..num_points |->
            LET i == ii - 1
                \* 0.2 * random.random() and 0.01 * random.random()
                angle_jitter == RatMul(Rat(2, 10), Rat(Level(seed, rank, i, 0) + 1, 2))
                distance_adjusted ==
                    RatAdd(ZoneDistance(level),
                           RatMul(Rat(1, 100), Rat(Level(seed, rank, i, 1) + 1, 2)))
            IN  [latitude |-> Polar(center_lat, distance_adjusted, i, num_points, angle_jitter, "sin"),
                 longitude |-> Polar(center_lng, distance_adjusted, i, num_points, angle_jitter, "cos"),
                 pollution_index |-> RatAdd(base, Uniform(Rat(2, 10), Level(seed, rank, i, 2))),
                 risk_level |-> level,
                 location |-> location,
                 estimated_affected_population |->
                    estimate_affected_population(location, level, 0)]]

Center(pollution_data, key) ==
    RatMean([i \in 1..Len(pollution_data) |-> pollution_data[i][key]])

LocationOf(pollution_data) ==
    IF "location" \in DOMAIN pollution_data[1] THEN pollution_data[1].location ELSE "None"

\* the outcomes of the branch len(data_points) >= 3 for one k-means labeling
ClusteredOutcomes(pollution_data, labels) ==
    LET points == DataPoints(pollution_data)
        n == Len(pollution_data)
        location == LocationOf(pollution_data)
        ids == FirstOccurrences(labels, {})
        cluster_avg_pollution ==
            [k \in 1..Len(ids) |->
                [id |-> ids[k], avg |-> ClusterAvgPollution(points, labels, ids[k])]]
        sorted_clusters == SortedClusters(cluster_avg_pollution)
    IN  IF Len(sorted_clusters) < 3
        THEN \* sorted_clusters[1] or sorted_clusters[2] does not exist
             {[exc |-> "IndexError", zones |-> <<>>]}
        ELSE
          LET rank_of == [c \in 0..2 |-> CHOOSE k \in 1..3 : sorted_clusters[k].id = c]
              all_same_coords ==
                  Cardinality({<<pollution_data[i].latitude, pollution_data[i].longitude>> :
                                  i \in 1..n}) = 1
          IN  IF all_same_coords
              THEN {[exc |-> "none",
                     zones |->
                        DistributedZones(pollution_data, 1, sorted_clusters[1].avg,
                            Center(pollution_data, "latitude"),
                            Center(pollution_data, "longitude"), location, seed)
                        \o DistributedZones(pollution_data, 2, sorted_clusters[2].avg,
                            Center(pollution_data, "latitude"),
                            Center(pollution_data, "longitude"), location, seed)
                        \o DistributedZones(pollution_data, 3, sorted_clusters[3].avg,
                            Center(pollution_data, "latitude"),
                            Center(pollution_data, "longitude"), location, seed)] :
                    seed \in Seeds}
              ELSE {[exc |-> "none",
                     zones |->
                        [i \in 1..n |->
                            [latitude |-> points[i][2],
                             longitude |-> points[i][3],
                             pollution_index |-> points[i][1],
                             risk_level |-> RiskLevels[rank_of[labels[i]]],
                             location |-> location,
                             estimated_affected_population |->
                                estimate_affected_population(
                                    location, RiskLevels[rank_of[labels[i]]], 0)]
                            @@ [k \in OptionalKeys(pollution_data, i) |->
                                    pollution_data[i][k]]]]}

\* the outcome of the branch len(data_points) < 3 for one seed of the random module
SyntheticOutcome(pollution_data, seed) ==
    LET center_lat == Center(pollution_data, "latitude")
        center_lng == Center(pollution_data, "longitude")
        location == LocationOf(pollution_data)
    IN  [exc |-> "none",
         zones |-> SyntheticZones(1, center_lat, center_lng, location, seed)
                   \o SyntheticZones(2, center_lat, center_lng, location, seed)
                   \o SyntheticZones(3, center_lat, center_lng, location, seed)]

\* every outcome predict_risk_zones(pollution_data) can have
predict_risk_zones(pollution_data) ==
    IF pollution_data = <<>>
    THEN \* pollution_data[0] on an empty list
         {[exc |-> "IndexError", zones |-> <<>>]}
    ELSE IF Len(pollution_data) >= 3
    THEN UNION {ClusteredOutcomes(pollution_data, labels) :
                    labels \in KMeansLabels(DataPoints(pollution_data))}
    ELSE {SyntheticOutcome(pollution_data, seed) : seed \in Seeds}

(***************************************************************************)
(* The classifier specification: a list of daily records is built and      *)
(* handed to predict_risk_zones.                                           *)
(***************************************************************************)
\* <<pollution_index, latitude>> of the records offered: four index values at
\* the demo city, and one of them at a second place as well
RecordKinds ==
    {<<Rat(1, 2), DemoLat>>, <<Rat(3, 2), DemoLat>>, <<Rat(5, 2), DemoLat>>,
     <<Rat(7, 2), DemoLat>>, <<Rat(3, 2), DemoLat + 1>>}

InputRecord(k, pollution_index, lat) ==
    [date |-> k,
     pollution_index |-> pollution_index,
     aqi |-> Int2Rat(50 + k),
     health_risk |-> Int2Rat(k),
     latitude |-> Int2Rat(lat),
     longitude |-> Int2Rat(DemoLon),
     location |-> DemoCity]

InitClassify ==
    /\ pc = "analyzed"
    /\ sentinel_data = <<>>
    /\ modis_data = <<>>
    /\ pollution_levels = <<>>
    /\ analyze_exc = "none"
    /\ risk_zones = <<>>
    /\ classify_exc = "none"
    /\ pm25_in = <<>>
    /\ pm25_out = <<>>
    /\ FallbackBuild
    /\ NoDirectCalls

AddDailyRecord ==
    /\ pc = "analyzed"
    /\ Len(pollution_levels) < MaxRecords
    /\ \E kind \in RecordKinds :
          pollution_levels' =
              Append(pollution_levels, InputRecord(Len(pollution_levels), kind[1], kind[2]))
    /\ UNCHANGED <<pc, sentinel_data, modis_data, analyze_exc, risk_zones,
                   classify_exc, pm25_in, pm25_out>>
    /\ UNCHANGED <<environment, correlator_vars, forecaster_vars, direct_call>>

PredictRiskZones ==
    /\ pc = "analyzed"
    /\ analyze_exc = "none"
    /\ \E out \in predict_risk_zones(pollution_levels) :
          /\ classify_exc' = out.exc
          /\ risk_zones' = out.zones
    /\ pc' = "classified"
    /\ UNCHANGED <<sentinel_data, modis_data, pollution_levels, analyze_exc,
                   pm25_in, pm25_out>>
    /\ UNCHANGED <<environment, correlator_vars, forecaster_vars, direct_call>>

NextClassify == AddDailyRecord \/ PredictRiskZones

SpecClassify == InitClassify /\ [][NextClassify]_vars

Classified == pc = "classified"

AllSameCoords ==
    Cardinality({<<pollution_levels[i].latitude, pollution_levels[i].longitude>> :
                    i \in 1..Len(pollution_levels)}) = 1

PairwiseDistinctIndex ==
    \A i, j \in 1..Len(pollution_levels) :
        i # j => pollution_levels[i].pollution_index # pollution_levels[j].pollution_index

ZonesOf(risk_level) == {i \in 1..Len(risk_zones) : risk_zones[i].risk_level = risk_level}

ExactlyThreeTiers ==
    {risk_zones[i].risk_level : i \in 1..Len(risk_zones)} = {"high", "medium", "low"}

\* mean pollution_index of the zones of a tier
TierMean(risk_level) ==
    LET z == SortedSeq(ZonesOf(risk_level))
    IN  RatMean([k \in 1..Len(z) |-> risk_zones[z[k]].pollution_index])

\* every zone of tier a has a larger pollution_index than every zone of tier b
TierAbove(a, b) ==
    \A i \in ZonesOf(a), j \in ZonesOf(b) :
        RatLt(risk_zones[j].pollution_index, risk_zones[i].pollution_index)

\* C2: predict_risk_zones never raises, whatever list of daily records it is
\* given (empty, 1 or 2 records, 3 or more with fewer than 3 distinct ones).
C2_ClassifyNeverRaises ==
    Classified => classify_exc = "none"

\* C6: for 3 or more daily records the zones use exactly the tiers high,
\* medium and low, and the clusters are ranked by mean pollution_index (the
\* zones of a cluster are its records when the records do not share one
\* coordinate).
C6_ThreeRankedTiers ==
    (Classified /\ Len(pollution_levels) >= 3) =>
        /\ classify_exc = "none"
        /\ ExactlyThreeTiers
        /\ ~AllSameCoords =>
              /\ RatLe(TierMean("medium"), TierMean("high"))
              /\ RatLe(TierMean("low"), TierMean("medium"))

\* C7 (as claimed): 3 or more daily records with distinct pollution_index
\* values give exactly one zone each for high, medium and low, the high
\* zone's pollution_index above the medium zone's above the low zone's.
C7_OneZonePerTier ==
    (Classified /\ Len(pollution_levels) >= 3 /\ PairwiseDistinctIndex) =>
        /\ classify_exc = "none"
        /\ \A t \in {"high", "medium", "low"} : Cardinality(ZonesOf(t)) = 1
        /\ TierAbove("high", "medium")
        /\ TierAbove("medium", "low")

\* C7 (amended): exactly 3 daily records with pairwise distinct
\* pollution_index values that do not all share one coordinate give exactly
\* one zone each for high, medium and low, with strictly decreasing
\* pollution_index.  More than 3 such records give one zone per record, and
\* records that all share one coordinate give 12 synthesised zones.
C7_OneZonePerTierOfThreeRecords ==
    (Classified /\ Len(pollution_levels) >= 3 /\ PairwiseDistinctIndex) =>
        /\ classify_exc = "none"
        /\ AllSameCoords => Len(risk_zones) = 12
        /\ ~AllSameCoords => Len(risk_zones) = Len(pollution_levels)
        /\ (~AllSameCoords /\ Len(pollution_levels) = 3) =>
              /\ \A t \in {"high", "medium", "low"} : Cardinality(ZonesOf(t)) = 1
              /\ TierAbove("high", "medium")
              /\ TierAbove("medium", "low")

\* C7 witness: three distinct records at two places, classified into three zones
C7_Witness ==
    /\ Classified
    /\ classify_exc = "none"
    /\ Len(pollution_levels) = 3
    /\ PairwiseDistinctIndex
    /\ ~AllSameCoords
    /\ Len(risk_zones) = 3
    /\ risk_zones[1].risk_level = "low"

\* the radius of a synthesised zone lies within 0.005 of its tier's distance
\* and its circle is centred at the mean input coordinate
OnTierCircle(zone) ==
    /\ zone.latitude.center = Center(pollution_levels, "latitude")
    /\ zone.longitude.center = Center(pollution_levels, "longitude")
    /\ zone.longitude.radius = zone.latitude.radius
    /\ RatLe(RatSub(ZoneDistance(zone.risk_level), Rat(5, 1000)), zone.latitude.radius)
    /\ RatLe(zone.latitude.radius, RatAdd(ZoneDistance(zone.risk_level), Rat(5, 1000)))

\* C8: 3 or more daily records that all share one coordinate give exactly 3
\* high, 4 medium and 5 low zones, each at its tier's distance +/- 0.005 from
\* the mean input coordinate, and not all at one coordinate.
C8_DegenerateCoordinates ==
    (Classified /\ Len(pollution_levels) >= 3 /\ AllSameCoords) =>
        /\ classify_exc = "none"
        /\ Cardinality(ZonesOf("high")) = 3
        /\ Cardinality(ZonesOf("medium")) = 4
        /\ Cardinality(ZonesOf("low")) = 5
        /\ Len(risk_zones) = 12
        /\ \A i \in 1..Len(risk_zones) : OnTierCircle(risk_zones[i])
        /\ \E i, j \in 1..Len(risk_zones) :
              <<risk_zones[i].latitude, risk_zones[i].longitude>>
                  # <<risk_zones[j].latitude, risk_zones[j].longitude>>

\* base pollution_index of the synthetic zones of a tier
TierBase(risk_level) ==
    CASE risk_level = "high" -> Rat(25, 10)
      [] risk_level = "medium" -> Rat(15, 10)
      [] OTHER -> Rat(8, 10)

\* C20: 1 or 2 daily records give exactly 2 high, 3 medium and 4 low zones,
\* each with a pollution_index within 0.2 of its tier's base 2.5 / 1.5 / 0.8,
\* so every high zone lies strictly above every medium zone and every medium
\* zone strictly above every low zone.
C20_SyntheticZones ==
    (Classified /\ Len(pollution_levels) \in {1, 2}) =>
        /\ classify_exc = "none"
        /\ Len(risk_zones) = 9
        /\ Cardinality(ZonesOf("high")) = 2
        /\ Cardinality(ZonesOf("medium")) = 3
        /\ Cardinality(ZonesOf("low")) = 4
        /\ \A i \in 1..Len(risk_zones) :
              LET z == risk_zones[i]
              IN  /\ RatLe(RatSub(TierBase(z.risk_level), Rat(2, 10)), z.pollution_index)
                  /\ RatLe(z.pollution_index, RatAdd(TierBase(z.risk_level), Rat(2, 10)))
        /\ TierAbove("high", "medium")
        /\ TierAbove("medium", "low")

\* C20 witness: two records classified, a high zone at the lower end of its
\* range and a medium zone at the upper end of its range
C20_Witness ==
    /\ Classified
    /\ Len(pollution_levels) = 2
    /\ Len(risk_zones) = 9
    /\ \E i \in ZonesOf("high") : risk_zones[i].pollution_index = Rat(23, 10)
    /\ \E i \in ZonesOf("medium") : risk_zones[i].pollution_index = Rat(17, 10)

(***************************************************************************)
(* The request specification: a daily series of 1..MaxEnrichDays days is   *)
(* analysed in a process with or without the optional libraries, in a      *)
(* winter or a monsoon month.                                              *)
(***************************************************************************)
MaxEnrichDays == 7

EnrichPatterns == {"constant", "ramp", "alternating"}

\* NO2 and PM2.5 of day i: multiples of the WHO thresholds
EnrichNO2(pattern, i) ==
    CASE pattern = "constant" -> WHO_NO2
      [] pattern = "ramp" -> WHO_NO2 * i
      [] OTHER -> IF i % 2 = 1 THEN WHO_NO2 ELSE 2 * WHO_NO2

EnrichPM25(pattern, i) ==
    IF pattern = "constant" THEN WHO_PM25 ELSE WHO_PM25 * (1 + (i % 3))

\* datetime.now().month: a winter month and a monsoon month
EnrichMonths == {1, 6}

\* a request for a series of up to max_days days, made in one of months
InitRequest(max_days, months) ==
    /\ pc = "fetch"
    /\ \E n \in 1..max_days, pattern \in EnrichPatterns :
          /\ sentinel_data =
                [i \in 1..n |-> SentinelSample(2 * (i - 1), EnrichNO2(pattern, i))]
          /\ modis_data =
                [i \in 1..n |-> ModisSample(2 * (i - 1), EnrichPM25(pattern, i))]
    /\ pollution_levels = <<>>
    /\ analyze_exc = "none"
    /\ risk_zones = <<>>
    /\ classify_exc = "none"
    /\ pm25_in = <<>>
    /\ pm25_out = <<>>
    /\ AI_MODELS_AVAILABLE \in BOOLEAN
    /\ PROPHET_AVAILABLE \in BOOLEAN
    /\ weather_seed \in WeatherSeeds
    /\ current_month \in months
    /\ NoDirectCalls

InitEnrich == InitRequest(MaxEnrichDays, EnrichMonths)

NextEnrich == AnalyzePollutionLevels

SpecEnrich == InitEnrich /\ [][NextEnrich]_vars

\* the keys of the summary annex and of the enrichment payloads
AnnexKeys ==
    {"summary", "forecasts", "ai_insights", "anomaly_analysis",
     "weather_correlations", "weather_data", "trend_explanations"}

\* C12: in every non-empty list returned by analyze_pollution_levels, the first
\* record carries 'summary' and no later record carries the summary or any
\* enrichment payload.
C12_AnnexOnFirstRecordOnly ==
    (pc # "fetch" /\ analyze_exc = "none" /\ pollution_levels # <<>>) =>
        /\ "summary" \in DOMAIN pollution_levels[1]
        /\ \A k \in 2..Len(pollution_levels) :
              DOMAIN pollution_levels[k] \cap AnnexKeys = {}

\* a list of several records whose first record carries every annex key
C12_Witness ==
    /\ pc = "analyzed"
    /\ analyze_exc = "none"
    /\ Len(pollution_levels) >= 7
    /\ AnnexKeys \subseteq DOMAIN pollution_levels[1]

\* C14: whenever analyze_pollution_levels returns at least 3 daily records,
\* the first record carries a non-empty 'forecasts' list, with or without the
\* optional libraries; without them every entry of the list comes from the
\* linear extrapolation.
C14_ForecastsFromThreeRecords ==
    (pc = "analyzed" /\ analyze_exc = "none" /\ Len(pollution_levels) >= 3) =>
        /\ "forecasts" \in DOMAIN pollution_levels[1]
        /\ pollution_levels[1].forecasts # <<>>
        /\ ~(AI_MODELS_AVAILABLE /\ PROPHET_AVAILABLE) =>
              \A i \in 1..Len(pollution_levels[1].forecasts) :
                 /\ "method" \in DOMAIN pollution_levels[1].forecasts[i]
                 /\ pollution_levels[1].forecasts[i].method = "simple_linear"

(***************************************************************************)
(* The pipeline specification: a request for a series of up to             *)
(* MaxPipelineDays days, made in January, is analysed and the analysed     *)
(* list is classified.                                                     *)
(***************************************************************************)
MaxPipelineDays == 5

InitPipeline == InitRequest(MaxPipelineDays, {1})

NextPipeline == AnalyzePollutionLevels \/ PredictRiskZones

SpecPipeline == InitPipeline /\ [][NextPipeline]_vars

\* a float that is neither nan nor infinite
FiniteNumber(x) == DOMAIN x = {"n", "d"} /\ x.d > 0

FiniteFields(record, keys) ==
    \A k \in keys \cap DOMAIN record : FiniteNumber(record[k])

FiniteTrend(trend) ==
    \A k \in DOMAIN trend :
        /\ FiniteNumber(trend[k].slope)
        /\ FiniteNumber(trend[k].r_squared)
        /\ RatLe(Int2Rat(0), trend[k].r_squared)
        /\ RatLe(trend[k].r_squared, Int2Rat(1))
        /\ trend[k].p_value \in {"one", "tiny", "between"}

FiniteSummary(summary) ==
    /\ FiniteFields(summary, {"avg_no2", "avg_pm25", "max_no2", "max_pm25"})
    /\ FiniteTrend(summary.trend)

FiniteCoefficient(corr) ==
    /\ IsNumber(corr)
    /\ corr.sign \in {-1, 0, 1}
    /\ FiniteNumber(corr.sq)
    /\ RatLe(corr.sq, Int2Rat(1))

FiniteCorrelations(first) ==
    "weather_correlations" \in DOMAIN first =>
        /\ \A key \in DOMAIN first.weather_correlations.correlations :
              FiniteCoefficient(first.weather_correlations.correlations[key])
        /\ \A i \in 1..Len(first.weather_correlations.explanations) :
              FiniteCoefficient(first.weather_correlations.explanations[i].value)

FiniteWeather(first) ==
    "weather_data" \in DOMAIN first =>
        \A i \in 1..Len(first.weather_data) :
            FiniteFields(first.weather_data[i],
                {"temperature", "humidity", "wind_speed", "precipitation", "pressure",
                 "latitude", "longitude"})

FiniteForecasts(first) ==
    "forecasts" \in DOMAIN first =>
        \A i \in 1..Len(first.forecasts) :
            FiniteFields(first.forecasts[i],
                {"no2_forecast", "pm25_forecast", "pollution_index"})

\* a zone coordinate: that of an input record, or center + radius * sin or cos
\* of an angle
FiniteCoordinate(c) ==
    IF "center" \in DOMAIN c
    THEN FiniteNumber(c.center) /\ FiniteNumber(c.radius) /\ FiniteNumber(c.angle_jitter)
    ELSE FiniteNumber(c)

FiniteZone(zone) ==
    /\ FiniteCoordinate(zone.latitude)
    /\ FiniteCoordinate(zone.longitude)
    /\ FiniteFields(zone, {"pollution_index", "aqi", "health_risk"})
    /\ zone.estimated_affected_population \in Nat

RecordNumbers ==
    {"no2_level", "pm25_level", "pollution_index", "aqi", "health_risk",
     "latitude", "longitude"}

\* C13: every number of the list returned by analyze_pollution_levels (daily
\* records, summary with the slope, r_squared and p_value of each trend,
\* weather correlations, weather rows, forecasts) and of every zone returned
\* by predict_risk_zones is finite: none is nan or infinite.
C13_NoNaNOrInfinity ==
    /\ (pc # "fetch" /\ analyze_exc = "none") =>
          /\ \A k \in 1..Len(pollution_levels) :
                FiniteFields(pollution_levels[k], RecordNumbers)
          /\ pollution_levels # <<>> =>
                /\ FiniteSummary(pollution_levels[1].summary)
                /\ FiniteCorrelations(pollution_levels[1])
                /\ FiniteWeather(pollution_levels[1])
                /\ FiniteForecasts(pollution_levels[1])
    /\ \A i \in 1..Len(risk_zones) : FiniteZone(risk_zones[i])

\* a classified constant series of 3 or more days in constant weather: each
\* trend has r_squared 0 and every pair of columns has zero variance
C13_Witness ==
    /\ pc = "classified"
    /\ risk_zones # <<>>
    /\ Len(pollution_levels) >= 3
    /\ pollution_levels[1].summary.trend.no2_trend.slope = Int2Rat(0)
    /\ pollution_levels[1].summary.trend.no2_trend.r_squared = Int2Rat(0)
    /\ pollution_levels[1].summary.trend.no2_trend.p_value = "one"
    /\ "weather_correlations" \in DOMAIN pollution_levels[1]
    /\ \A key \in DOMAIN pollution_levels[1].weather_correlations.correlations :
          pollution_levels[1].weather_correlations.correlations[key] = ZeroCoefficient

(***************************************************************************)
(* The correlator specification: correlate_weather_with_pollution is       *)
(* called on a weather frame of 0..MaxJoinedDays days and a pollution      *)
(* frame on the same days, on days shifted by one, on other days, or empty.*)
(***************************************************************************)
MaxJoinedDays == 5

TemperaturePatterns == {"constant", "rising", "zigzag"}

Temperature(pattern, k) ==
    CASE pattern = "constant" -> 20
      [] pattern = "rising" -> 19 + k
      [] OTHER -> <<20, 23, 21, 24, 20>>[((k - 1) % 5) + 1]

NO2Relations == {"double", "constant", "falling", "mixed"}

\* NO2 of the k-th pollution row, which under "double" is twice the
\* temperature of the k-th weather row
RelatedNO2(relation, pattern, k) ==
    CASE relation = "double" -> 2 * Temperature(pattern, k)
      [] relation = "constant" -> WHO_NO2
      [] relation = "falling" -> 60 - 5 * k
      [] OTHER -> <<40, 44, 40, 52, 41>>[((k - 1) % 5) + 1]

PollutionFrames == {"same_days", "shifted", "other_days", "empty"}

FirstPollutionDay(frame) ==
    CASE frame = "same_days" -> 0
      [] frame = "shifted" -> 1
      [] OTHER -> 10

CorrelatorSeeds == 0..1

InitWeather ==
    /\ pc = "fetch"
    /\ sentinel_data = <<>>
    /\ modis_data = <<>>
    /\ analyze_exc = "none"
    /\ risk_zones = <<>>
    /\ classify_exc = "none"
    /\ pm25_in = <<>>
    /\ pm25_out = <<>>
    /\ FallbackBuild
    /\ weather_correlations = None
    /\ forecast_days = DefaultForecastDays
    /\ forecasts = <<>>
    /\ call_args = <<>>
    /\ call_result = <<>>
    /\ \E n \in 0..MaxJoinedDays, pattern \in TemperaturePatterns, seed \in CorrelatorSeeds,
          relation \in NO2Relations, pm25_cycle \in BOOLEAN, frame \in PollutionFrames :
          /\ weather_data =
                [k \in 1..n |->
                    [WeatherRow(DemoCity, k - 1, k, seed) EXCEPT
                        !.temperature = Int2Rat(Temperature(pattern, k))]]
          /\ pollution_levels =
                [k \in 1..(IF frame = "empty" THEN 0 ELSE n) |->
                    [date |-> FirstPollutionDay(frame) + k - 1,
                     no2_level |-> Int2Rat(RelatedNO2(relation, pattern, k)),
                     pm25_level |-> Int2Rat(IF pm25_cycle THEN WHO_PM25 * (1 + (k % 3))
                                            ELSE WHO_PM25)]]

CorrelateWeatherWithPollution ==
    /\ pc = "fetch"
    /\ weather_correlations' = correlate_weather_with_pollution(weather_data, pollution_levels)
    /\ pc' = "correlated"
    /\ UNCHANGED <<sentinel_data, modis_data, pollution_levels, analyze_exc, risk_zones,
                   classify_exc, pm25_in, pm25_out, weather_data>>
    /\ UNCHANGED <<environment, forecaster_vars, direct_call>>

NextWeather == CorrelateWeatherWithPollution

SpecWeather == InitWeather /\ [][NextWeather]_vars

\* the days present in both frames, in order
JoinedDays ==
    SortedSeq({weather_data[i].date : i \in 1..Len(weather_data)}
              \cap {pollution_levels[i].date : i \in 1..Len(pollution_levels)})

\* the values of a weather or pollution column on the joined days
JoinedColumn(frame, c) ==
    [k \in 1..Len(JoinedDays) |->
        frame[CHOOSE i \in 1..Len(frame) : frame[i].date = JoinedDays[k]][c]]

Constant(x) == \A i, j \in 1..Len(x) : x[i] = x[j]

\* n * sum(x * y) - sum(x) * sum(y)
ScaledCoMoment(x, y) ==
    RatSub(RatMul(Int2Rat(Len(x)), RatSum([i \in 1..Len(x) |-> RatMul(x[i], y[i])])),
           RatMul(RatSum(x), RatSum(y)))

\* the coefficient the claim names for two joined series
ExpectedCoefficient(x, y) ==
    IF Constant(x) \/ Constant(y) THEN ZeroCoefficient
    ELSE LET sxy == ScaledCoMoment(x, y)
         IN  Coefficient(Sign(sxy),
                         RatMul(RatDiv(sxy, ScaledCoMoment(x, x)),
                                RatDiv(sxy, ScaledCoMoment(y, y))))

HasEntry(w, p) ==
    \E i \in 1..Len(weather_correlations.value.explanations) :
        weather_correlations.value.explanations[i].correlation = w \o "_" \o p

Correlated == pc = "correlated" /\ ~weather_correlations.is_none

\* pollution = 2 x temperature on 5 or more joined days, temperature varying
InjectedCorrelation ==
    LET t == JoinedColumn(weather_data, "temperature")
        no2 == JoinedColumn(pollution_levels, "no2_level")
    IN  /\ Len(JoinedDays) >= 5
        /\ ~Constant(t)
        /\ \A k \in 1..Len(t) : no2[k] = RatMul(Int2Rat(2), t[k])

\* C15: for every pair of a weather factor and a pollution factor the reported
\* coefficient is 0 when either joined series has no variance and the Pearson
\* coefficient, which lies in [-1, 1], otherwise; the explanations hold an
\* entry for the pair exactly if |coefficient| >= 0.3; and NO2 = 2 x temperature
\* on 5 or more joined days with varying temperature gives coefficient 1 and
\* an entry for temperature and NO2.
C15_CorrelatorCoefficients ==
    Correlated =>
        /\ \A k \in 1..10 :
              LET w == PairOrder[k][1]
                  p == PairOrder[k][2]
                  corr == weather_correlations.value.correlations[w \o "_" \o p]
              IN  /\ corr = ExpectedCoefficient(JoinedColumn(weather_data, w),
                                                JoinedColumn(pollution_levels, p))
                  /\ RatLe(corr.sq, Int2Rat(1))
                  /\ HasEntry(w, p) <=> RatLe(Rat(3 * 3, 10 * 10), corr.sq)
        /\ InjectedCorrelation =>
              /\ weather_correlations.value.correlations["temperature_no2_level"]
                    = Coefficient(1, Int2Rat(1))
              /\ HasEntry("temperature", "no2_level")

\* the injected correlation has been analysed
C15_Witness == Correlated /\ InjectedCorrelation /\ HasEntry("temperature", "no2_level")

(***************************************************************************)
(* The forecaster specification: generate_forecasts is called on a history *)
(* of 0..MaxHistoryDays consecutive days, with or without the seasonal     *)
(* estimator, for 1, 3 or the default number of days.                      *)
(***************************************************************************)
MaxHistoryDays == 6

ForecastDayChoices == {1, 3, DefaultForecastDays}

HistoryPatterns == {"falling", "rising", "constant"}

\* the levels of day k of a history; a falling history is extrapolated below 0
HistoryNO2(pattern, k) ==
    CASE pattern = "falling" -> 90 - 15 * k
      [] pattern = "rising" -> 30 + 10 * k
      [] OTHER -> WHO_NO2

HistoryPM25(pattern, k) ==
    CASE pattern = "falling" -> 75 - 10 * k
      [] pattern = "rising" -> 20 + 5 * (k % 3)
      [] OTHER -> WHO_PM25

FirstHistoryDays == {0, 25}

InitForecast ==
    /\ pc = "fetch"
    /\ sentinel_data = <<>>
    /\ modis_data = <<>>
    /\ analyze_exc = "none"
    /\ risk_zones = <<>>
    /\ classify_exc = "none"
    /\ pm25_in = <<>>
    /\ pm25_out = <<>>
    /\ AI_MODELS_AVAILABLE = FALSE
    /\ PROPHET_AVAILABLE \in BOOLEAN
    /\ weather_seed = 0
    /\ current_month = 1
    /\ weather_data = <<>>
    /\ weather_correlations = None
    /\ forecast_days \in ForecastDayChoices
    /\ forecasts = <<>>
    /\ call_args = <<>>
    /\ call_result = <<>>
    /\ \E n \in 0..MaxHistoryDays, pattern \in HistoryPatterns, first \in FirstHistoryDays :
          pollution_levels =
              [k \in 1..n |->
                  [date |-> first + k - 1,
                   no2_level |-> Int2Rat(HistoryNO2(pattern, k)),
                   pm25_level |-> Int2Rat(HistoryPM25(pattern, k))]]

GenerateForecasts ==
    /\ pc = "fetch"
    /\ \E prophet \in (IF PROPHET_AVAILABLE /\ Len(pollution_levels) >= 5
                       THEN ProphetOutcomes ELSE {ProphetRaises}) :
          forecasts' = generate_forecasts(pollution_levels, forecast_days, prophet)
    /\ pc' = "forecast"
    /\ UNCHANGED <<sentinel_data, modis_data, pollution_levels, analyze_exc, risk_zones,
                   classify_exc, pm25_in, pm25_out, forecast_days>>
    /\ UNCHANGED <<environment, correlator_vars, direct_call>>

NextForecast == GenerateForecasts

SpecForecast == InitForecast /\ [][NextForecast]_vars

Forecast == pc = "forecast"

\* an entry that the seasonal estimator produced: it has no 'method'
FromSeasonalModel(entry) == "method" \notin DOMAIN entry

\* C18: with fewer than 3 historical days the forecast list is empty; otherwise
\* it has exactly forecast_days entries, each with is_forecast true and
\* non-negative no2_forecast and pm25_forecast, dated on the forecast_days
\* consecutive days right after the last historical date.
C18_ForecastShape ==
    Forecast =>
        IF Len(pollution_levels) < 3 THEN forecasts = <<>>
        ELSE /\ Len(forecasts) = forecast_days
             /\ \A i \in 1..Len(forecasts) :
                   /\ forecasts[i].is_forecast = TRUE
                   /\ RatLe(Int2Rat(0), forecasts[i].no2_forecast)
                   /\ RatLe(Int2Rat(0), forecasts[i].pm25_forecast)
                   /\ forecasts[i].date = pollution_levels[Len(pollution_levels)].date + i

\* a forecast of the seasonal estimator for the default number of days, in
\* which a predicted NO2 value below 0 was emitted as 0
C18_Witness ==
    /\ Forecast
    /\ Len(pollution_levels) >= 5
    /\ Len(forecasts) = DefaultForecastDays
    /\ FromSeasonalModel(forecasts[1])
    /\ \E i \in 1..Len(forecasts) : forecasts[i].no2_forecast = Int2Rat(0)

\* C19: in every forecast entry, of the seasonal estimator or of the linear
\* extrapolation, pollution_index = 0.5 * no2_forecast / 40 + 0.5 * pm25_forecast / 25
\* of the entry's own emitted concentrations, and so is never negative.
C19_IndexFromEmittedValues ==
    Forecast =>
        \A i \in 1..Len(forecasts) :
            /\ forecasts[i].pollution_index =
                  RatAdd(RatDiv(forecasts[i].no2_forecast, Int2Rat(2 * WHO_NO2)),
                         RatDiv(forecasts[i].pm25_forecast, Int2Rat(2 * WHO_PM25)))
            /\ RatLe(Int2Rat(0), forecasts[i].pollution_index)

(***************************************************************************)
(* calculate_pm25_aqi as an operation on its own: the inputs are a pair of *)
(* concentrations in hundredths of ug/m3.                                  *)
(***************************************************************************)
PM25Grid ==
    {PM25BreakTenths[i] * 10 + o : i \in 1..5, o \in (0 - GridSpan)..GridSpan}
        \cup {5000 * k : k \in 0..(CoarsePoints - 1)}

Hundredths(k) == Rat(k, 100)

InitAqi ==
    /\ pc = "aqi"
    /\ pm25_in \in PM25Grid \X PM25Grid
    /\ pm25_out = <<>>
    /\ FallbackBuild
    /\ NoDirectCalls
    /\ sentinel_data = <<>>
    /\ modis_data = <<>>
    /\ pollution_levels = <<>>
    /\ analyze_exc = "none"
    /\ risk_zones = <<>>
    /\ classify_exc = "none"

CalculatePm25Aqi ==
    /\ pc = "aqi"
    /\ pm25_out' = <<calculate_pm25_aqi(Hundredths(pm25_in[1])),
                     calculate_pm25_aqi(Hundredths(pm25_in[2]))>>
    /\ pc' = "aqi_done"
    /\ UNCHANGED <<sentinel_data, modis_data, pollution_levels, analyze_exc,
                   risk_zones, classify_exc, pm25_in>>
    /\ UNCHANGED <<environment, correlator_vars, forecaster_vars, direct_call>>

NextAqi == CalculatePm25Aqi

SpecAqi == InitAqi /\ [][NextAqi]_vars

\* the breakpoint (1..5) whose boundary concentration is k hundredths, 0 if none
BoundaryAt(k) ==
    IF \E i \in 1..5 : PM25BreakTenths[i] * 10 = k
    THEN CHOOSE i \in 1..5 : PM25BreakTenths[i] * 10 = k
    ELSE 0

AqiNonDecreasing ==
    pm25_in[1] <= pm25_in[2] => RatLe(pm25_out[1], pm25_out[2])

\* C10 (as claimed): calculate_pm25_aqi is non-decreasing, and at every
\* breakpoint boundary 12, 35.4, 55.4, 150.4, 250.4 the branch below and the
\* branch above give the same value (no jump just above the boundary).
C10_ContinuousNonDecreasing ==
    pc = "aqi_done" =>
        /\ AqiNonDecreasing
        /\ BoundaryAt(pm25_in[1]) # 0 =>
              PM25Segment(BoundaryAt(pm25_in[1]) + 1, Hundredths(pm25_in[1])) = pm25_out[1]

\* C10 (amended): calculate_pm25_aqi is non-decreasing on non-negative
\* concentrations; at every breakpoint boundary the branch above lies strictly
\* above the branch below, by less than one AQI point (an upward jump).
C10_NonDecreasingWithJumps ==
    pc = "aqi_done" =>
        /\ AqiNonDecreasing
        /\ BoundaryAt(pm25_in[1]) # 0 =>
              LET above == PM25Segment(BoundaryAt(pm25_in[1]) + 1, Hundredths(pm25_in[1]))
              IN  /\ RatLt(pm25_out[1], above)
                  /\ RatLt(above, RatAdd(pm25_out[1], Int2Rat(1)))

\* C10 witness: the value at the boundary 12 and the value just above it
C10_Witness ==
    /\ pc = "aqi_done"
    /\ pm25_in = <<1200, 1201>>
    /\ pm25_out[1] = Int2Rat(50)
    /\ RatLt(pm25_out[1], pm25_out[2])

(***************************************************************************)
(* A function of the services called on its own: call_args holds its       *)
(* arguments, call_result what it raised ("none" if it returned) and what  *)
(* it returned.                                                            *)
(***************************************************************************)
Pending == [exc |-> "pending", value |-> <<>>]

InitCall(arguments) ==
    /\ pc = "call"
    /\ call_args \in arguments
    /\ call_result = Pending
    /\ sentinel_data = <<>>
    /\ modis_data = <<>>
    /\ pollution_levels = <<>>
    /\ analyze_exc = "none"
    /\ risk_zones = <<>>
    /\ classify_exc = "none"
    /\ pm25_in = <<>>
    /\ pm25_out = <<>>
    /\ FallbackBuild
    /\ weather_data = <<>>
    /\ weather_correlations = None
    /\ forecast_days = DefaultForecastDays
    /\ forecasts = <<>>

\* the call returns: nothing but its result changes
Return(outcome) ==
    /\ pc' = "returned"
    /\ call_result' = outcome
    /\ UNCHANGED <<sentinel_data, modis_data, pollution_levels, analyze_exc,
                   risk_zones, classify_exc, pm25_in, pm25_out, call_args>>
    /\ UNCHANGED <<environment, correlator_vars, forecaster_vars>>

CallReturned == pc = "returned" /\ call_result.exc = "none"

(***************************************************************************)
(* The estimator specification: estimate_affected_population for every     *)
(* listed city and one unlisted, every tier and one outside, and variants   *)
(* on both sides of the clamp.                                             *)
(***************************************************************************)
EstimatorLocations == {"Nagpur", "Mumbai", "Delhi", "London", "Shanghai", "Pune"}

EstimatorTiers == {"high", "medium", "low", "unknown", "severe"}

EstimatorVariants == -3..10

InitEstimator ==
    InitCall([location : EstimatorLocations, risk_level : EstimatorTiers,
              variant : EstimatorVariants])

EstimateAffectedPopulation ==
    /\ pc = "call"
    /\ Return([exc |-> "none",
               value |-> estimate_affected_population(
                            call_args.location, call_args.risk_level, call_args.variant)])

NextEstimator == EstimateAffectedPopulation

SpecEstimator == InitEstimator /\ [][NextEstimator]_vars

\* clamp(0.7 + 0.1 * variant, 0.5, 1.5) as a real number
VariationFactor(variant) ==
    RatMax(Rat(1, 2),
           IF RatLe(Rat(7 + variant, 10), Rat(3, 2)) THEN Rat(7 + variant, 10) ELSE Rat(3, 2))

\* floor(population * riskPercentage * variationFactor / 3) of real numbers
FloorOfShare(location, risk_level, variant) ==
    Trunc(RatDiv(RatMul(RatMul(Int2Rat(Population(location)), RiskPercentage(risk_level)),
                        VariationFactor(variant)),
                 Int2Rat(3)))

\* C21: estimate_affected_population returns the non-negative integer
\* floor(population * riskPercentage * clamp(0.7 + 0.1 * variant, 0.5, 1.5) / 3),
\* with the defaults 1,000,000 and 0.01, and is non-decreasing in variant.
C21_FloorOfShare ==
    CallReturned =>
        /\ call_result.value >= 0
        /\ call_result.value =
              FloorOfShare(call_args.location, call_args.risk_level, call_args.variant)
        /\ call_args.variant - 1 \in EstimatorVariants =>
              estimate_affected_population(call_args.location, call_args.risk_level,
                                           call_args.variant - 1) <= call_result.value

(***************************************************************************)
(* Shares of the population (classifier specification).                    *)
(***************************************************************************)
\* sum of estimated_affected_population over the zones whose index is in S
AffectedIn(S) ==
    LET z == SortedSeq(S)
    IN  SumInt([k \in 1..Len(z) |-> risk_zones[z[k]].estimated_affected_population])

\* C22: in every result of predict_risk_zones the affected populations of the
\* zones of one tier sum to at most population * riskPercentage of the tier,
\* and those of all zones to at most the population.
C22_SharesWithinPopulation ==
    (Classified /\ classify_exc = "none") =>
        /\ \A t \in {"high", "medium", "low"} :
              RatLe(Int2Rat(AffectedIn(ZonesOf(t))),
                    RatMul(Int2Rat(Population(LocationOf(pollution_levels))),
                           RiskPercentage(t)))
        /\ AffectedIn(1..Len(risk_zones)) <= Population(LocationOf(pollution_levels))

(***************************************************************************)
(* The wording of the explanations (correlator specification).             *)
(***************************************************************************)
\* the explanation entry of the pair of w and p
EntryOf(w, p) ==
    LET entries == weather_correlations.value.explanations
    IN  entries[CHOOSE i \in 1..Len(entries) : entries[i].correlation = w \o "_" \o p]

\* C23: every explanation entry, those of the wind_speed pairs included, uses
\* the template of its own weather factor for the sign of the coefficient and
\* names the pollutant of its pair; none falls through to the generic sentence.
C23_FactorTemplates ==
    Correlated =>
        \A k \in 1..10 :
            LET w == PairOrder[k][1]
                p == PairOrder[k][2]
            IN  HasEntry(w, p) =>
                    /\ EntryOf(w, p).explanation.template = w
                    /\ EntryOf(w, p).explanation.direction =
                          (IF EntryOf(w, p).value.sign > 0 THEN "positive" ELSE "negative")
                    /\ EntryOf(w, p).explanation.pollutant =
                          (IF p = "no2_level" THEN "NO2" ELSE "PM2.5")

(***************************************************************************)
(* The narrative specification: generate_insights is called on its own on  *)
(* a first record whose summary holds the averages and the trend blocks,   *)
(* with and without the language models.                                   *)
(***************************************************************************)
\* averages at, just above and away from the thresholds 40 / 60 and 25 / 35
NarrativeNO2 == {Int2Rat(0), Int2Rat(40), Rat(401, 10), Int2Rat(60), Rat(601, 10), Int2Rat(120)}

NarrativePM25 == {Int2Rat(0), Int2Rat(25), Rat(251, 10), Int2Rat(35), Rat(351, 10), Int2Rat(90)}

Directions == {"increasing", "decreasing", "stable"}

\* analyze_trends gives a block per pollutant, or none below 3 days
NarrativeTrends ==
    {<<>>} \cup
    {[k \in {"no2_trend", "pm25_trend"} |->
        [direction |-> IF k = "no2_trend" THEN a ELSE b]] : a \in Directions, b \in Directions}

InitInsights ==
    /\ pc = "call"
    /\ \E avg_no2 \in NarrativeNO2, avg_pm25 \in NarrativePM25, trend \in NarrativeTrends :
          call_args =
              [pollution_data |->
                  <<[location |-> DemoCity,
                     summary |-> [avg_no2 |-> avg_no2, avg_pm25 |-> avg_pm25,
                                  trend |-> trend]]>>,
               location |-> DemoCity]
    /\ call_result = Pending
    /\ sentinel_data = <<>>
    /\ modis_data = <<>>
    /\ pollution_levels = <<>>
    /\ analyze_exc = "none"
    /\ risk_zones = <<>>
    /\ classify_exc = "none"
    /\ pm25_in = <<>>
    /\ pm25_out = <<>>
    /\ AI_MODELS_AVAILABLE \in BOOLEAN
    /\ PROPHET_AVAILABLE = FALSE
    /\ weather_seed = 0
    /\ current_month = 1
    /\ weather_data = <<>>
    /\ weather_correlations = None
    /\ forecast_days = DefaultForecastDays
    /\ forecasts = <<>>

GenerateInsights ==
    /\ pc = "call"
    /\ Return([exc |-> "none",
               value |-> generate_insights(call_args.pollution_data, call_args.location)])

NextInsights == GenerateInsights

SpecInsights == InitInsights /\ [][NextInsights]_vars

NarrativeSummary == call_args.pollution_data[1].summary

NO2Sentences == {"no2_severe", "no2_exceeds", "no2_within"}

PM25Sentences == {"pm25_critical", "pm25_above", "pm25_acceptable"}

TrendSentences ==
    {"both_increasing", "both_decreasing", "no2_increasing_pm25_stable",
     "pm25_increasing_no2_stable"}

\* the number of sentences of the narrative that belong to the set
CountOf(narrative, sentences) ==
    Cardinality({i \in 1..Len(narrative) : narrative[i] \in sentences})

Narrated(sentence) == \E i \in 1..Len(call_result.value) : call_result.value[i] = sentence

\* C28: the sentence "NO2 levels are increasing while PM2.5 remains stable" is
\* in the narrative only if the PM2.5 direction is stable, and the sentence
\* "PM2.5 levels are increasing while NO2 remains stable" only if the NO2
\* direction is stable.
C28_StableMeansStable ==
    CallReturned =>
        /\ Narrated("no2_increasing_pm25_stable") =>
              DirectionOf(NarrativeSummary.trend, "pm25_trend") = "stable"
        /\ Narrated("pm25_increasing_no2_stable") =>
              DirectionOf(NarrativeSummary.trend, "no2_trend") = "stable"

(***************************************************************************)
(* The endpoint specification: /api/pollution-data fetches both sample     *)
(* collections and analyses them (the classification of ten records is     *)
(* left to the classifier and pipeline specifications).  The request names *)
(* a region, a start date (a calendar day, day 0 being Sunday 2023-01-01)  *)
(* and an end date; the two upstream services answer in one of the listed  *)
(* ways.                                                                   *)
(***************************************************************************)
FetchDays == 10

\* datetime.weekday() of a day number: Monday is 0
Weekday(day) == (day + 6) % 7

\* what GET {NASA_EONET_API}/events does: the request raises, answers with an
\* error status, or answers 200 with a list of air-quality events, each with
\* its day and whether it lies within 500 km of the demo city
NoEvents == <<>>

EonetOutcomes(start) ==
    {[kind |-> "raise", events |-> NoEvents],
     [kind |-> "status_500", events |-> NoEvents],
     [kind |-> "ok", events |-> NoEvents],
     [kind |-> "ok", events |-> <<[type |-> "Wildfires", date |-> start + 2, near |-> TRUE]>>],
     [kind |-> "ok", events |-> <<[type |-> "Volcanoes", date |-> start + 1, near |-> FALSE]>>]}

\* what the World Air Quality feed does: both requests raise or fail, the feed
\* reports an error, or it answers with or without a PM2.5 reading
WaqiOutcomes ==
    {[kind |-> "raise", pm25 |-> None],
     [kind |-> "status_500", pm25 |-> None],
     [kind |-> "error", pm25 |-> None],
     [kind |-> "ok", pm25 |-> None],
     [kind |-> "ok", pm25 |-> Some(50)]}

\* round(x) of a float whose fraction is not one half
RoundHalfEven(x) ==
    LET f == Trunc(x)
        twice == RatMul(RatSub(x, Int2Rat(f)), Int2Rat(2))
    IN  IF twice.n < twice.d THEN f
        ELSE IF twice.n > twice.d THEN f + 1
        ELSE IF f % 2 = 0 THEN f ELSE f + 1

\* weekday_pattern of the two fetchers, Monday to Sunday, in tenths
SentinelWeekdayPattern == <<12, 13, 14, 13, 12, 8, 7>>

ModisWeekdayPattern == <<12, 13, 14, 13, 12, 9, 8>>

\* lines 29-68: the events kept from the answer; a failure leaves the list empty
EventData(response) == IF response.kind = "ok" THEN response.events ELSE NoEvents

\* lines 85-105: what the events add to the base value of day `date`
RECURSIVE EventImpact(_, _)
EventImpact(event_data, date) ==
    IF event_data = <<>> THEN 0
    ELSE LET event == Head(event_data)
             days_diff == Abs(date - event.date)
             strength == CASE event.type = "Wildfires" -> 15
                           [] event.type = "Volcanoes" -> 20
                           [] OTHER -> 10
         IN  (IF event.near /\ days_diff < 5 THEN (5 - days_diff) * strength ELSE 0)
             + EventImpact(Tail(event_data), date)

\* the fetcher whose upstream failure is not caught
fetch_sentinel_dataUnguarded(region, start_date, end_date, response) ==
    IF response.kind = "raise" THEN [exc |-> "ConnectionError", frame |-> <<>>]
    ELSE [exc |-> "none",
          frame |-> [k \in 1..FetchDays |->
                        SentinelSample(2 * (start_date + k - 1), 30)]]

fetch_sentinel_data(region, start_date, end_date, response) ==
    LET event_data == EventData(response)
        base_value(i) ==
            RoundHalfEven(Rat(30 * SentinelWeekdayPattern[((Weekday(start_date) + i) % 7) + 1]
                              + 10 * ((i % 3) * 5), 10))
    IN  [exc |-> "none",
         frame |->
            [k \in 1..FetchDays |->
                [SentinelSample(2 * (start_date + k - 1),
                                base_value(k - 1) + EventImpact(event_data, start_date + k - 1))
                 EXCEPT !.event_influenced =
                    \E e \in 1..Len(event_data) :
                        /\ Abs(start_date + k - 1 - event_data[e].date) < 5
                        /\ event_data[e].near]]]

\* the fetcher that stops at the requested end date
fetch_modis_dataUntilEnd(region, start_date, end_date, response) ==
    [exc |-> "none",
     frame |-> [k \in 1..(IF end_date < start_date THEN 0 ELSE Min(FetchDays, end_date - start_date + 1)) |->
                    ModisSample(2 * (start_date + k - 1), 70)]]

fetch_modis_data(region, start_date, end_date, response) ==
    LET real_pm25 == IF response.kind = "ok" THEN response.pm25 ELSE None
        base_pm25 == IF real_pm25.is_none THEN 70 ELSE real_pm25.value
        pm25_value(i) ==
            RoundHalfEven(Rat(base_pm25 * ModisWeekdayPattern[((Weekday(start_date) + i) % 7) + 1]
                              + 10 * ((i % 3) * 3 - (i % 2) * 2), 10))
    IN  [exc |-> "none",
         frame |-> [k \in 1..FetchDays |->
                        ModisSample(2 * (start_date + k - 1), pm25_value(k - 1))]]

Regions == {"Nagpur", "Delhi"}

StartDates == 0..6

InitEndpoint ==
    /\ pc = "request"
    /\ \E region \in Regions, start_date \in StartDates, until \in {0, 364} :
          \E eonet \in EonetOutcomes(start_date), waqi \in WaqiOutcomes :
              call_args = [region |-> region, start_date |-> start_date, end_date |-> until,
                           eonet |-> eonet, waqi |-> waqi]
    /\ call_result = Pending
    /\ sentinel_data = <<>>
    /\ modis_data = <<>>
    /\ pollution_levels = <<>>
    /\ analyze_exc = "none"
    /\ risk_zones = <<>>
    /\ classify_exc = "none"
    /\ pm25_in = <<>>
    /\ pm25_out = <<>>
    /\ FallbackBuild
    /\ weather_data = <<>>
    /\ weather_correlations = None
    /\ forecast_days = DefaultForecastDays
    /\ forecasts = <<>>

\* app.py line 31
FetchSentinelData ==
    /\ pc = "request"
    /\ \E out \in Once(fetch_sentinel_data(call_args.region, call_args.start_date,
                                           call_args.end_date, call_args.eonet)) :
          /\ sentinel_data' = out.frame
          /\ call_result' = [exc |-> out.exc, value |-> <<>>]
          /\ pc' = IF out.exc = "none" THEN "sentinel_fetched" ELSE "failed"
    /\ UNCHANGED <<modis_data, pollution_levels, analyze_exc, risk_zones, classify_exc,
                   pm25_in, pm25_out, call_args>>
    /\ UNCHANGED <<environment, correlator_vars, forecaster_vars>>

\* app.py line 32
FetchModisData ==
    /\ pc = "sentinel_fetched"
    /\ \E out \in Once(fetch_modis_data(call_args.region, call_args.start_date,
                                        call_args.end_date, call_args.waqi)) :
          /\ modis_data' = out.frame
          /\ call_result' = [exc |-> out.exc, value |-> <<>>]
          /\ pc' = IF out.exc = "none" THEN "fetch" ELSE "failed"
    /\ UNCHANGED <<sentinel_data, pollution_levels, analyze_exc, risk_zones, classify_exc,
                   pm25_in, pm25_out, call_args>>
    /\ UNCHANGED <<environment, correlator_vars, forecaster_vars>>

NextEndpoint == FetchSentinelData \/ FetchModisData \/ AnalyzePollutionLevels

SpecEndpoint == InitEndpoint /\ [][NextEndpoint]_vars

UpstreamFailures == {"raise", "status_500"}

\* the frame holds FetchDays samples with a value in column c, one per day
\* from the start date on, all at the demo city
DemoCityFrame(frame, c) ==
    /\ Len(frame) = FetchDays
    /\ \A k \in 1..Len(frame) :
          /\ {"timestamp", c, "latitude", "longitude", "location"} \subseteq DOMAIN frame[k]
          /\ frame[k].timestamp = 2 * (call_args.start_date + k - 1)
          /\ frame[k][c].d = 1
          /\ frame[k].latitude = Int2Rat(DemoLat)
          /\ frame[k].longitude = Int2Rat(DemoLon)
          /\ frame[k].location = DemoCity

SentinelFetched == pc \in {"sentinel_fetched", "fetch", "analyzed"}

ModisFetched == pc \in {"fetch", "analyzed"}

\* C25: when the request to the events service raises or answers with an error
\* status, fetch_sentinel_data raises nothing and returns its full collection
\* of locally generated samples (timestamp, value, latitude, longitude,
\* location); so does fetch_modis_data when the air-quality feed fails; and
\* the two collections are joinable: analyze returns a record for each day.
C25_UpstreamFailureDegrades ==
    /\ call_args.eonet.kind \in UpstreamFailures =>
          /\ pc # "failed"
          /\ SentinelFetched =>
                /\ DemoCityFrame(sentinel_data, "no2_value")
                /\ sentinel_data =
                      fetch_sentinel_data(call_args.region, call_args.start_date,
                          call_args.end_date, [kind |-> "ok", events |-> NoEvents]).frame
    /\ call_args.waqi.kind \in UpstreamFailures =>
          /\ pc # "failed"
          /\ ModisFetched =>
                /\ DemoCityFrame(modis_data, "pm25_value")
                /\ modis_data =
                      fetch_modis_data(call_args.region, call_args.start_date,
                          call_args.end_date, [kind |-> "ok", pm25 |-> None]).frame
    /\ (call_args.eonet.kind \in UpstreamFailures /\ call_args.waqi.kind \in UpstreamFailures
        /\ pc = "analyzed") =>
          /\ analyze_exc = "none"
          /\ Len(pollution_levels) = FetchDays

\* both services failed and the request has been analysed
C25_Witness ==
    /\ pc = "analyzed"
    /\ call_args.eonet.kind = "raise"
    /\ call_args.waqi.kind = "status_500"
    /\ Len(pollution_levels) = FetchDays
    /\ pollution_levels[1].no2_level = sentinel_data[1].no2_value

\* C30: for every region, start date and end date, each fetcher returns exactly
\* 10 samples, on the 10 consecutive days from the start date, with the same
\* timestamps in both collections and the demo city's name and coordinates;
\* and the endpoint analyses exactly 10 daily records, of those days, that
\* share one coordinate.
C30_TenDaysOfDemoCity ==
    /\ pc # "failed"
    /\ SentinelFetched => DemoCityFrame(sentinel_data, "no2_value")
    /\ ModisFetched =>
          /\ DemoCityFrame(modis_data, "pm25_value")
          /\ \A k \in 1..FetchDays : sentinel_data[k].timestamp = modis_data[k].timestamp
    /\ pc = "analyzed" =>
          /\ analyze_exc = "none"
          /\ Len(pollution_levels) = 10
          /\ \A k \in 1..Len(pollution_levels) :
                /\ pollution_levels[k].date = call_args.start_date + k - 1
                /\ pollution_levels[k].latitude = pollution_levels[1].latitude
                /\ pollution_levels[k].longitude = pollution_levels[1].longitude
                /\ pollution_levels[k].location = DemoCity

\* another region, with an end date before the start date, has been analysed
C30_Witness ==
    /\ pc = "analyzed"
    /\ call_args.region = "Delhi"
    /\ call_args.end_date < call_args.start_date
    /\ call_args.eonet.events # NoEvents
    /\ Len(pollution_levels) = 10
    /\ AllSameCoords

(***************************************************************************)
(* Trend explanations (enrichment specification).                          *)
(***************************************************************************)
\* C27: generate_trend_explanations raises for no trend block, correlation
\* result or calendar month and returns at least one sentence, so that a first
\* record that carries weather_data carries a non-empty trend_explanations too.
C27_ExplanationsWithWeather ==
    (pc = "analyzed" /\ analyze_exc = "none" /\ pollution_levels # <<>>) =>
        LET first == pollution_levels[1]
        IN  /\ generate_trend_explanations(first.summary.trend,
                  IF "weather_correlations" \in DOMAIN first
                  THEN Some(first.weather_correlations) ELSE None,
                  current_month).exc = "none"
            /\ "weather_data" \in DOMAIN first =>
                  /\ "trend_explanations" \in DOMAIN first
                  /\ first.trend_explanations # <<>>

(***************************************************************************)
(* Short series (daily specification).                                     *)
(***************************************************************************)
\* C26: for a daily series of at most 10 days detect_anomalies returns no
\* date, whatever the values (one value among n lies at most sqrt(n - 1)
\* population standard deviations from the mean): no record of such a series
\* has is_anomaly = true.
C26_NoAnomalyUpTo10Days ==
    (Returned /\ Len(sentinel_data) <= 10) =>
        /\ Len(pollution_levels) = Len(sentinel_data)
        /\ \A k \in 1..Len(pollution_levels) : ~pollution_levels[k].is_anomaly

\* ten days have been analysed whose NO2 values are alike but for one far
\* above them, the arrangement with the largest z-score; none is flagged
C26_Witness ==
    /\ Returned
    /\ Len(pollution_levels) = 10
    /\ pollution_levels[1].no2_level = Int2Rat(140)
    /\ \A k \in 2..10 : pollution_levels[k].no2_level = Int2Rat(30)
    /\ pollution_levels[10].pm25_level = Int2Rat(PM25Spike)
    /\ \A k \in 1..10 : ~pollution_levels[k].is_anomaly

(***************************************************************************)
(* Zones of the clustered branch (classifier specification).               *)
(***************************************************************************)
\* zone i repeats record i's coordinates and index, and its optional fields
ZoneOfRecord(i) ==
    /\ risk_zones[i].latitude = pollution_levels[i].latitude
    /\ risk_zones[i].longitude = pollution_levels[i].longitude
    /\ risk_zones[i].pollution_index = pollution_levels[i].pollution_index
    /\ \A key \in {"aqi", "health_risk"} \cap DOMAIN pollution_levels[i] :
          /\ key \in DOMAIN risk_zones[i]
          /\ risk_zones[i][key] = pollution_levels[i][key]

\* C29: for 3 or more records that do not all share one coordinate,
\* predict_risk_zones returns one zone per record, in the order of the
\* records, zone i with record i's latitude, longitude and pollution_index
\* (and its aqi and health_risk); zones of one tier carry the same
\* estimated_affected_population.
C29_OneZonePerRecord ==
    (Classified /\ Len(pollution_levels) >= 3 /\ ~AllSameCoords) =>
        /\ classify_exc = "none"
        /\ Len(risk_zones) = Len(pollution_levels)
        /\ \A i \in 1..Len(risk_zones) : ZoneOfRecord(i)
        /\ \A i, j \in 1..Len(risk_zones) :
              risk_zones[i].risk_level = risk_zones[j].risk_level =>
                  risk_zones[i].estimated_affected_population
                      = risk_zones[j].estimated_affected_population

====
